---- MODULE Spec2Model ----
(***************************************************************************)
(* A model of the PCS chair scripts: six command-line CSV extractors and   *)
(* aggregators.  One behaviour is one run of one script: the input file is *)
(* chosen in the initial state, the script resolves its columns from the   *)
(* header, reads the data rows one at a time and writes to stdout/stderr.  *)
(*                                                                         *)
(* Strings are TLA+ strings, read character by character with SubSeq, so   *)
(* that str.strip, re.match and the csv quoting are computed, not assumed. *)
(* A csv row is a sequence of strings; Python indices are kept 0-based.    *)
(***************************************************************************)
EXTENDS Integers, Sequences, FiniteSets, TLC

VARIABLES
    script,   \* which script this run executes
    argv,     \* the command-line arguments and the files they name
    pc,       \* the position of the run in the script
    line,     \* number of data rows the csv reader has yielded so far
    row,      \* the data row being processed (the loop variable)
    locals,   \* the local variables of the running function
    stdout,   \* what has been written to standard output, in order
    stderr,   \* what has been written to standard error, in order
    returncode \* exit status of the process once it has ended

vars == <<script, argv, pc, line, row, locals, stdout, stderr, returncode>>

-----------------------------------------------------------------------------
(* Bounds of the model. *)

\* Most data rows in an input file.
MaxRows == 3

-----------------------------------------------------------------------------
(* Python strings and lists. *)

CharAt(s, i) == SubSeq(s, i, i)

IsSpace(c) == c \in {" ", "\t"}

IsDigit(c) == c \in {"0", "1", "2", "3", "4", "5", "6", "7", "8", "9"}

IsWordChar(c) ==
    \/ IsDigit(c)
    \/ c \in {"_", "A", "B", "C", "D", "E", "F", "G", "H", "I", "J", "K", "L", "M",
              "N", "O", "P", "Q", "R", "S", "T", "U", "V", "W", "X", "Y", "Z",
              "a", "b", "c", "d", "e", "f", "g", "h", "i", "j", "k", "l", "m",
              "n", "o", "p", "q", "r", "s", "t", "u", "v", "w", "x", "y", "z"}

RECURSIVE lstrip(_)
lstrip(s) == IF s # "" /\ IsSpace(CharAt(s, 1)) THEN lstrip(Tail(s)) ELSE s

RECURSIVE rstrip(_)
rstrip(s) ==
    IF s # "" /\ IsSpace(CharAt(s, Len(s))) THEN rstrip(SubSeq(s, 1, Len(s) - 1)) ELSE s

\* str.strip()
strip(s) == rstrip(lstrip(s))

\* s.startswith(p)
startswith(s, p) == Len(s) >= Len(p) /\ SubSeq(s, 1, Len(p)) = p

\* Length of the longest run of digits that starts at position i of s.
RECURSIVE DigitRun(_, _)
DigitRun(s, i) ==
    IF i <= Len(s) /\ IsDigit(CharAt(s, i)) THEN 1 + DigitRun(s, i + 1) ELSE 0

\* re.match(r'\d+\.\d+', s): a match at the start of s, anything may follow.
MatchDecimal(s) ==
    LET n == DigitRun(s, 1)
    IN  /\ n >= 1
        /\ CharAt(s, n + 1) = "."
        /\ DigitRun(s, n + 2) >= 1

\* re.match(letter + r'\d+' + suffix, s)
MatchIndexed(letter, suffix, s) ==
    LET n == DigitRun(s, 2)
    IN  /\ startswith(s, letter)
        /\ n >= 1
        /\ startswith(SubSeq(s, n + 2, Len(s)), suffix)

\* re.search(letter + r'(\d+)' + suffix, s).group(1), for an s that MatchIndexed.
IndexedNumber(s) == SubSeq(s, 2, 1 + DigitRun(s, 2))

\* s.split(c) for a one-character separator c: the pieces between the separators,
\* empty pieces included (cur is the piece being read).
RECURSIVE split(_, _, _)
split(s, c, cur) ==
    IF s = "" THEN <<cur>>
    ELSE IF CharAt(s, 1) = c THEN <<cur>> \o split(Tail(s), c, "")
    ELSE split(Tail(s), c, cur \o CharAt(s, 1))

\* s.find(sub) + 1: the position of the first occurrence of sub in s, 0 if none.
Find(s, sub) ==
    LET hits == {i \in 1..(Len(s) - Len(sub) + 1) : SubSeq(s, i, i + Len(sub) - 1) = sub}
    IN  IF hits = {} THEN 0 ELSE CHOOSE i \in hits : \A j \in hits : i <= j

\* int(s) for a string of digits.
RECURSIVE ToNat(_)
ToNat(s) ==
    IF s = "" THEN 0
    ELSE 10 * ToNat(SubSeq(s, 1, Len(s) - 1))
           + (CHOOSE d \in 0..9 : ToString(d) = CharAt(s, Len(s)))

AllDigits(s) == s # "" /\ DigitRun(s, 1) = Len(s)

\* The list positions 0 .. len(xs)-1, in order.
Positions(xs) == [k \in 1..Len(xs) |-> k - 1]

\* xs[i] with Python's indexing: 0-based, negative indices count from the end.
HasIndex(xs, i) == -Len(xs) <= i /\ i < Len(xs)

At(xs, i) == IF i >= 0 THEN xs[i + 1] ELSE xs[Len(xs) + i + 1]

\* list.index(x): position of the first x, or -1 where Python raises ValueError.
IndexOf(xs, x) ==
    IF \E k \in 1..Len(xs) : xs[k] = x
    THEN (CHOOSE k \in 1..Len(xs) : xs[k] = x /\ \A j \in 1..(k - 1) : xs[j] # x) - 1
    ELSE -1

\* Position of the last x: what a scan that overwrites on every match leaves.
LastIndexOf(xs, x) ==
    IF \E k \in 1..Len(xs) : xs[k] = x
    THEN (CHOOSE k \in 1..Len(xs) : xs[k] = x /\ \A j \in (k + 1)..Len(xs) : xs[j] # x) - 1
    ELSE -1

\* All sequences over S of length at most n.
SeqsUpTo(S, n) == UNION {[1..k -> S] : k \in 0..n}

Max(a, b) == IF a >= b THEN a ELSE b

\* d[k] = v on a dict d (a function whose domain is the set of keys).
Put(d, k, v) == [x \in DOMAIN d \cup {k} |-> IF x = k THEN v ELSE d[x]]

EmptyDict == [x \in {} |-> 0]

\* d.get(k, 0)
Val0(d, k) == IF k \in DOMAIN d THEN d[k] ELSE 0

\* The characters that occur in the model's strings, in code-point order.
CodePoints == "\t !#$%&+,-./0123456789:;<=>?@ABCDEFGHIJKLMNOPQRSTUVWXYZ_abcdefghijklmnopqrstuvwxyz~"

\* ord(c), up to an order-preserving renumbering.
Ord(c) == CHOOSE i \in 1..Len(CodePoints) : CharAt(CodePoints, i) = c

\* s < t on Python strings: lexicographic by code point.
RECURSIVE StrLess(_, _)
StrLess(s, t) ==
    IF t = "" THEN FALSE
    ELSE IF s = "" THEN TRUE
    ELSE IF CharAt(s, 1) = CharAt(t, 1) THEN StrLess(Tail(s), Tail(t))
    ELSE Ord(CharAt(s, 1)) < Ord(CharAt(t, 1))

\* sorted(S) for a set S of strings.
RECURSIVE sorted(_)
sorted(S) ==
    IF S = {} THEN <<>>
    ELSE LET m == CHOOSE x \in S : \A y \in S \ {x} : StrLess(x, y)
         IN  <<m>> \o sorted(S \ {m})

\* A file that exists, with its header row and its data rows.
File(h, rs) == [exists |-> TRUE, header |-> h, rows |-> rs]

\* A path that names no file.
NoFile == [exists |-> FALSE, header |-> <<>>, rows |-> <<>>]

\* The files with header h and at most MaxRows data rows drawn from R.
FilesOver(h, R) == {File(h, rs) : rs \in SeqsUpTo(R, MaxRows)}

\* print(..., file=sys.stderr)
Say(out, msg) == Append(out, msg)

IndexErrorMsg == "An unexpected error occurred: list index out of range"

-----------------------------------------------------------------------------
(* papers_needing_work.py *)

\* The (name_index, score_index) pairs of the family letter<n>name / letter<n>score,
\* in header order; a name column whose score column is absent is skipped.
PairedColumns(header, letter) ==
    LET ScoreIndex(i) ==
            IndexOf(header, letter \o IndexedNumber(header[i + 1]) \o "score")
        found == SelectSeq(Positions(header),
                           LAMBDA i : /\ MatchIndexed(letter, "name", header[i + 1])
                                      /\ ScoreIndex(i) # -1)
    IN  [k \in 1..Len(found) |-> <<found[k], ScoreIndex(found[k])>>]

\* The locals of analyze_csv once the header has been scanned.
PNWResolve(header) ==
    [ low_reviewer_counts           |-> EmptyDict,
      total_paper_counts            |-> EmptyDict,
      tentative_reviewer_counts     |-> EmptyDict,
      missing_reviewer_counts       |-> EmptyDict,
      total_reviewer_counts         |-> EmptyDict,
      overcommitted_reviewer_counts |-> EmptyDict,
      pc_completed_reviews_counts   |-> EmptyDict,
      completed_reviews_counts      |-> EmptyDict,
      reviewer_subcommittee         |-> EmptyDict,
      s1_name_index      |-> LastIndexOf(header, "Pname"),
      decision_index     |-> LastIndexOf(header, "Decision"),
      subcommittee_index |-> LastIndexOf(header, "Subcommittee"),
      pc_columns         |-> PairedColumns(header, "S"),
      reviewer_columns   |-> PairedColumns(header, "E") ]

\* The decision filter of papers_needing_work and papers_needing_review_work.
PNWRetained(r, decision_index) ==
    strip(At(r, decision_index)) \in {"RER", "ERER"}

\* The slots of a column family whose name field is not blank.
NamedSlots(r, columns) ==
    {k \in 1..Len(columns) : strip(At(r, columns[k][1])) # ""}

\* The slot loops raise IndexError when a field they read is not in the row.
SlotsRaise(r, columns) ==
    \E k \in 1..Len(columns) :
        \/ ~HasIndex(r, columns[k][1])
        \/ strip(At(r, columns[k][1])) # "" /\ ~HasIndex(r, columns[k][2])

SlotScore(r, columns, k) == strip(At(r, columns[k][2]))

\* Per-row tallies of the external-reviewer slots and of the PC slots.
TentativeReviewers(r, l) ==
    Cardinality({k \in NamedSlots(r, l.reviewer_columns) :
                    SlotScore(r, l.reviewer_columns, k) = "T"})

\* A slip that would count a tentative slot as confirmed.
ConfirmedReviewers_CountsTentative(r, l) == Cardinality(NamedSlots(r, l.reviewer_columns))

ConfirmedReviewers(r, l) ==
    Cardinality({k \in NamedSlots(r, l.reviewer_columns) :
                    SlotScore(r, l.reviewer_columns, k) # "T"})

CompletedReviewers(r, l) ==
    Cardinality({k \in NamedSlots(r, l.reviewer_columns) :
                    /\ SlotScore(r, l.reviewer_columns, k) # "T"
                    /\ MatchDecimal(SlotScore(r, l.reviewer_columns, k))})

PcCompleted(r, l) ==
    Cardinality({k \in NamedSlots(r, l.pc_columns) :
                    MatchDecimal(SlotScore(r, l.pc_columns, k))})

\* The coverage target: reviewers a paper should have.
CoverageTarget == 2

\* A slip that would forget the tentative reviewers in the deficit.
MissingAdded_IgnoresTentative(confirmed, tentative) == Max(0, CoverageTarget - confirmed)

\* What one row adds to Missing Reviewers.
MissingAdded(confirmed, tentative) == Max(0, CoverageTarget - (confirmed + tentative))

\* A slip that would add the difference to the target without the test for a surplus.
OvercommittedAdded_Unclamped(confirmed_reviewers) == confirmed_reviewers - CoverageTarget

\* What one row adds to the overcommitted counter.
OvercommittedAdded(confirmed) ==
    IF confirmed < CoverageTarget THEN 0
    ELSE IF confirmed > CoverageTarget THEN confirmed - CoverageTarget
    ELSE 0

\* A slip that would turn the comparison round.
LowAdded_Inverted(confirmed_reviewers) == IF confirmed_reviewers > CoverageTarget THEN 1 ELSE 0

\* What one row adds to Papers Needing Reviewers.
LowAdded(confirmed) == IF confirmed < CoverageTarget THEN 1 ELSE 0

\* A slip that would treat every row as the first of its group.
PNWFirstSight_EveryRow(l, key) == TRUE

\* s1_name_value not in low_reviewer_counts
PNWFirstSight(l, key) == key \notin DOMAIN l.low_reviewer_counts

\* First sight of a key: every counter starts at zero.
PNWZeroCounters(l, key) ==
    [l EXCEPT !.total_paper_counts            = Put(@, key, 0),
              !.low_reviewer_counts           = Put(@, key, 0),
              !.tentative_reviewer_counts     = Put(@, key, 0),
              !.missing_reviewer_counts       = Put(@, key, 0),
              !.total_reviewer_counts         = Put(@, key, 0),
              !.overcommitted_reviewer_counts = Put(@, key, 0),
              !.pc_completed_reviews_counts   = Put(@, key, 0),
              !.completed_reviews_counts      = Put(@, key, 0)]

\* The additions at the end of the loop body.
PNWAccumulate(l, key, r) ==
    LET confirmed == ConfirmedReviewers(r, l)
        tentative == TentativeReviewers(r, l)
    IN  [l EXCEPT !.missing_reviewer_counts[key]       = @ + MissingAdded(confirmed, tentative),
                  !.total_reviewer_counts[key]         = @ + confirmed,
                  !.tentative_reviewer_counts[key]     = @ + tentative,
                  !.total_paper_counts[key]            = @ + 1,
                  !.low_reviewer_counts[key]           = @ + LowAdded(confirmed),
                  !.overcommitted_reviewer_counts[key] = @ + OvercommittedAdded(confirmed),
                  !.pc_completed_reviews_counts[key]   = @ + PcCompleted(r, l),
                  !.completed_reviews_counts[key]      = @ + CompletedReviewers(r, l)]

\* One pass of the loop body on row r: the locals after it and whether it raised.
PNWProcessRow(l, r) ==
    IF ~HasIndex(r, l.decision_index) THEN [locals |-> l, raised |-> TRUE]
    ELSE IF ~PNWRetained(r, l.decision_index) THEN [locals |-> l, raised |-> FALSE]
    ELSE IF ~HasIndex(r, l.s1_name_index) THEN [locals |-> l, raised |-> TRUE]
    ELSE
        LET key  == At(r, l.s1_name_index)
            new  == PNWFirstSight(l, key)
            l1   == IF new THEN PNWZeroCounters(l, key) ELSE l
        IN  IF new /\ ~HasIndex(r, l.subcommittee_index)
            THEN [locals |-> l1, raised |-> TRUE]
            ELSE
                LET l2 == IF new
                          THEN [l1 EXCEPT !.reviewer_subcommittee =
                                              Put(@, key, At(r, l.subcommittee_index))]
                          ELSE l1
                IN  IF SlotsRaise(r, l.reviewer_columns) \/ SlotsRaise(r, l.pc_columns)
                    THEN [locals |-> l2, raised |-> TRUE]
                    ELSE [locals |-> PNWAccumulate(l2, key, r), raised |-> FALSE]

PNWOutputHeader ==
    <<"Primary", "Subcommittee", "Papers Needing Reviewers", "Overcommitted Papers",
      "Total Papers", "Tentative Reviewers", "Missing Reviewers", "Assigned Reviewers",
      "Completed External Reviews", "Completed PC Reviews">>

\* The csv row written for one group.
PNWOutputRow(l, s1_name) ==
    << s1_name,
       l.reviewer_subcommittee[s1_name],
       ToString(l.low_reviewer_counts[s1_name]),
       ToString(l.overcommitted_reviewer_counts[s1_name]),
       ToString(l.total_paper_counts[s1_name]),
       ToString(l.tentative_reviewer_counts[s1_name]),
       ToString(l.missing_reviewer_counts[s1_name]),
       ToString(l.total_reviewer_counts[s1_name]),
       ToString(l.completed_reviews_counts[s1_name]),
       ToString(l.pc_completed_reviews_counts[s1_name]) >>

\* Everything the script writes to stdout after the loop.
PNWOutput(l) ==
    LET keys == sorted(DOMAIN l.low_reviewer_counts)
    IN  <<PNWOutputHeader>> \o [k \in 1..Len(keys) |-> PNWOutputRow(l, keys[k])]

\* open() and the header scan, up to the first data row.
PNWOpen ==
    /\ script = "papers_needing_work"
    /\ pc = "start"
    /\ LET f == argv.input_filepath
           l == PNWResolve(f.header)
       IN  IF ~f.exists
           THEN /\ stderr' = Say(stderr, "Error: The file was not found.")
                /\ pc' = "done"
                /\ UNCHANGED locals
           ELSE IF l.s1_name_index = -1
           THEN /\ stderr' = Say(stderr, "Error: The CSV file must contain an 'Pname' column.")
                /\ pc' = "done"
                /\ locals' = l
           ELSE IF l.decision_index = -1
           THEN /\ stderr' = Say(stderr, "Error: The CSV file must contain a 'Decision' column.")
                /\ pc' = "done"
                /\ locals' = l
           ELSE /\ pc' = "rows"
                /\ locals' = l
                /\ UNCHANGED stderr
    /\ returncode' = IF pc' = "done" THEN 0 ELSE returncode
    /\ UNCHANGED <<script, argv, line, row, stdout>>

\* for row in reader: one data row.
PNWRow ==
    /\ script = "papers_needing_work"
    /\ pc = "rows"
    /\ line < Len(argv.input_filepath.rows)
    /\ LET r   == argv.input_filepath.rows[line + 1]
           res == PNWProcessRow(locals, r)
       IN  /\ row' = r
           /\ line' = line + 1
           /\ locals' = res.locals
           /\ IF res.raised
              THEN /\ stderr' = Say(stderr, IndexErrorMsg)
                   /\ pc' = "done"
                   /\ returncode' = 0
              ELSE UNCHANGED <<stderr, pc, returncode>>
    /\ UNCHANGED <<script, argv, stdout>>

\* The reader is exhausted: write the table.
PNWWrite ==
    /\ script = "papers_needing_work"
    /\ pc = "rows"
    /\ line = Len(argv.input_filepath.rows)
    /\ stdout' = stdout \o PNWOutput(locals)
    /\ pc' = "done"
    /\ returncode' = 0
    /\ UNCHANGED <<script, argv, line, row, locals, stderr>>

\* Headers of the submissions export given to papers_needing_work.
PNWHeaderFull ==
    <<"Pname", "Decision", "Subcommittee", "E1name", "E1score", "E2name", "E2score",
      "E3name", "E3score", "S1name", "S1score">>

PNWHeaderScenario == <<"Pname", "Decision", "E1name", "E1score">>

PNWHeaderNoPname == <<"Decision", "Subcommittee", "E1name", "E1score">>

PNWHeaderNoDecision == <<"Pname", "Subcommittee", "E1name", "E1score">>

PNWHeaderUnpaired == <<"Pname", "Decision", "Subcommittee", "E1name", "S1score">>

PNWRowsFull ==
    { <<"PaperA", "RER", "SC1", "Alice", "T", "", "", "", "", "Pat", "4.00">>,
      <<"PaperA", "RER", "SC2", "Bob", "3.50", "", "", "", "", "Pat", "">>,
      <<"PaperA", " ERER ", "SC1", "Alice", "", "Bob", "4.5", "Carol", " T ", "", "">>,
      <<"PaperB", "ERER", "SC2", "Alice", "1.0", "Bob", "late", "Carol", "2.25", "Pat", "T">>,
      <<"PaperB", "A", "SC2", "Alice", "1.0", "Bob", "2.0", "Carol", "3.0", "Pat", "4.0">>,
      <<"PaperB", "RER", "SC2", "", "", "", "", "", "", "", "">>,
      <<"PaperA", "RER", "SC1", " ", "5.0", "Bob", "T", "Carol", "T", "", "">>,
      <<"PaperA", "RER", "SC1", "Alice", "T">>,
      <<"PaperB", "R", "SC1">>,
      <<"PaperB">> }

PNWRowsScenario ==
    { <<"PaperA", "RER", "Alice", "T">>,
      <<"PaperA", "RER", "Bob", "3.50">>,
      <<"PaperB", "ERER", "", "">>,
      <<"PaperB", "A", "Carol", "1.0">> }

PNWRowsOther ==
    { <<"PaperA", "RER", "SC1", "Alice", "3.50">>,
      <<"PaperB", "SC2", "RER", "Bob", "T">> }

PNWFiles ==
    FilesOver(PNWHeaderFull, PNWRowsFull)
        \cup FilesOver(PNWHeaderScenario, PNWRowsScenario)
        \cup FilesOver(PNWHeaderNoPname, PNWRowsOther)
        \cup FilesOver(PNWHeaderNoDecision, PNWRowsOther)
        \cup FilesOver(PNWHeaderUnpaired, PNWRowsOther)
        \cup {NoFile}

\* The state of a process that has just been started.
Started(name, args) ==
    /\ script = name
    /\ argv = args
    /\ pc = "start"
    /\ line = 0
    /\ row = <<>>
    /\ locals = [started |-> TRUE]
    /\ stdout = <<>>
    /\ stderr = <<>>
    /\ returncode = -1

InitPNW == \E f \in PNWFiles : Started("papers_needing_work", [input_filepath |-> f])

NextPNW == PNWOpen \/ PNWRow \/ PNWWrite

SpecPNW == InitPNW /\ [][NextPNW]_vars

-----------------------------------------------------------------------------
(* papers_needing_review_work.py *)

\* The locals of analyze_csv once the header has been scanned.
PNRWResolve(header) ==
    [ external_review_counts       |-> EmptyDict,
      pc_review_counts             |-> EmptyDict,
      external_total_review_counts |-> EmptyDict,
      pc_total_review_counts       |-> EmptyDict,
      decision_index   |-> LastIndexOf(header, "Decision"),
      pc_columns       |-> PairedColumns(header, "S"),
      reviewer_columns |-> PairedColumns(header, "E") ]

\* The loop body for one external slot whose name r_name is not blank.
PNRWExternalSlot(l, r_name, score) ==
    LET l1 == IF r_name \notin DOMAIN l.external_review_counts
              THEN [l EXCEPT !.external_review_counts = Put(@, r_name, 0),
                             !.external_total_review_counts = Put(@, r_name, 1)]
              ELSE IF "T" # score
              THEN [l EXCEPT !.external_total_review_counts[r_name] = @ + 1]
              ELSE l
    IN  IF MatchDecimal(score)
        THEN [l1 EXCEPT !.external_review_counts[r_name] = @ + 1]
        ELSE l1

\* The loop body for one PC slot whose name r_name is not blank.
PNRWPcSlot(l, r_name, score) ==
    LET l1 == IF r_name \notin DOMAIN l.pc_review_counts
              THEN [l EXCEPT !.pc_review_counts = Put(@, r_name, 0),
                             !.pc_total_review_counts = Put(@, r_name, 1)]
              ELSE [l EXCEPT !.pc_total_review_counts[r_name] = @ + 1]
    IN  IF MatchDecimal(score)
        THEN [l1 EXCEPT !.pc_review_counts[r_name] = @ + 1]
        ELSE l1

\* The slot loop over columns from its k-th pair on, in order; it stops at the
\* first field that is not in the row.
RECURSIVE PNRWSlots(_, _, _, _, _)
PNRWSlots(l, r, columns, k, external) ==
    IF k > Len(columns) THEN [locals |-> l, raised |-> FALSE]
    ELSE IF ~HasIndex(r, columns[k][1]) THEN [locals |-> l, raised |-> TRUE]
    ELSE
        LET r_name == strip(At(r, columns[k][1]))
        IN  IF r_name = "" THEN PNRWSlots(l, r, columns, k + 1, external)
            ELSE IF ~HasIndex(r, columns[k][2]) THEN [locals |-> l, raised |-> TRUE]
            ELSE
                LET score == strip(At(r, columns[k][2]))
                    l1    == IF external THEN PNRWExternalSlot(l, r_name, score)
                             ELSE PNRWPcSlot(l, r_name, score)
                IN  PNRWSlots(l1, r, columns, k + 1, external)

\* One pass of the loop body on row r: the locals after it and whether it raised.
PNRWProcessRow(l, r) ==
    IF ~HasIndex(r, l.decision_index) THEN [locals |-> l, raised |-> TRUE]
    ELSE IF ~PNWRetained(r, l.decision_index) THEN [locals |-> l, raised |-> FALSE]
    ELSE
        LET ext == PNRWSlots(l, r, l.reviewer_columns, 1, TRUE)
        IN  IF ext.raised THEN ext
            ELSE PNRWSlots(ext.locals, r, l.pc_columns, 1, FALSE)

PNRWOutputHeader == <<"Reviewer", "PC?", "Reviews Completed", "Total Reviews Assigned">>

\* The rows of one section of the table: a dict's keys in sorted order.
PNRWSection(counts, totals, flag) ==
    LET keys == sorted(DOMAIN counts)
    IN  [k \in 1..Len(keys) |->
            <<keys[k], flag, ToString(counts[keys[k]]), ToString(totals[keys[k]])>>]

\* A slip that would write the external section from the PC loop's template.
PNRWOutput_ExternalAsPc(l) ==
    <<PNRWOutputHeader>>
        \o PNRWSection(l.pc_review_counts, l.pc_total_review_counts, "true")
        \o PNRWSection(l.external_review_counts, l.external_total_review_counts, "true")

\* Everything the script writes to stdout after the loop.
PNRWOutput(l) ==
    <<PNRWOutputHeader>>
        \o PNRWSection(l.pc_review_counts, l.pc_total_review_counts, "true")
        \o PNRWSection(l.external_review_counts, l.external_total_review_counts, "false")

\* open() and the header scan, up to the first data row.
PNRWOpen ==
    /\ script = "papers_needing_review_work"
    /\ pc = "start"
    /\ LET f == argv.input_filepath
           l == PNRWResolve(f.header)
       IN  IF ~f.exists
           THEN /\ stderr' = Say(stderr, "Error: The file was not found.")
                /\ pc' = "done"
                /\ UNCHANGED locals
           ELSE IF l.decision_index = -1
           THEN /\ stderr' = Say(stderr, "Error: The CSV file must contain a 'Decision' column.")
                /\ pc' = "done"
                /\ locals' = l
           ELSE /\ pc' = "rows"
                /\ locals' = l
                /\ UNCHANGED stderr
    /\ returncode' = IF pc' = "done" THEN 0 ELSE returncode
    /\ UNCHANGED <<script, argv, line, row, stdout>>

\* for row in reader: one data row.
PNRWRow ==
    /\ script = "papers_needing_review_work"
    /\ pc = "rows"
    /\ line < Len(argv.input_filepath.rows)
    /\ LET r   == argv.input_filepath.rows[line + 1]
           res == PNRWProcessRow(locals, r)
       IN  /\ row' = r
           /\ line' = line + 1
           /\ locals' = res.locals
           /\ IF res.raised
              THEN /\ stderr' = Say(stderr, IndexErrorMsg)
                   /\ pc' = "done"
                   /\ returncode' = 0
              ELSE UNCHANGED <<stderr, pc, returncode>>
    /\ UNCHANGED <<script, argv, stdout>>

\* The reader is exhausted: write the table.
PNRWWrite ==
    /\ script = "papers_needing_review_work"
    /\ pc = "rows"
    /\ line = Len(argv.input_filepath.rows)
    /\ stdout' = stdout \o PNRWOutput(locals)
    /\ pc' = "done"
    /\ returncode' = 0
    /\ UNCHANGED <<script, argv, line, row, locals, stderr>>

\* Submissions exports given to papers_needing_review_work.
PNRWHeaderFull ==
    <<"Decision", "S1name", "S1score", "E1name", "E1score", "E2name", "E2score">>

PNRWHeaderNoDecision == <<"S1name", "S1score", "E1name", "E1score">>

PNRWRowsFull ==
    { <<"RER", "Pat", "4.0", "Alice", "T", "Bob", "3.5">>,
      <<"ERER", "Pat", "", "Alice", "2.0", "", "">>,
      <<" RER ", "Alice", "1.5", "Pat", "", "Alice", "T">>,
      <<"A", "Pat", "4.0", "Alice", "3.0", "Bob", "3.5">>,
      <<"RER", "Quinn", "T", "Bob", "T", " Bob ", "2.0">>,
      <<"RER", "", "", "Alice", "T", "", "">>,
      <<"RER", "Pat", "1.0", "Alice">>,
      <<"R">>,
      <<>> }

PNRWRowsOther == { <<"Pat", "4.0", "Alice", "T">>, <<"Pat", "", "Bob", "1.0">> }

PNRWFiles ==
    FilesOver(PNRWHeaderFull, PNRWRowsFull)
        \cup FilesOver(PNRWHeaderNoDecision, PNRWRowsOther)
        \cup {NoFile}

InitPNRW ==
    \E f \in PNRWFiles : Started("papers_needing_review_work", [input_filepath |-> f])

NextPNRW == PNRWOpen \/ PNRWRow \/ PNRWWrite

SpecPNRW == InitPNRW /\ [][NextPNRW]_vars

-----------------------------------------------------------------------------
(* analyze_reviewers.py *)

\* [name.strip() for name in value.split(',')]
SplitTrimmed(value) ==
    LET parts == split(value, ",", "") IN [k \in 1..Len(parts) |-> strip(parts[k])]

\* csv.DictReader: a row shorter than the header has None under the columns it
\* lacks.  IsNone tells whether row.get(col, "") is None, Get gives it otherwise.
IsNone(h, r, col) == IndexOf(h, col) # -1 /\ LastIndexOf(h, col) >= Len(r)

Get(h, r, col) == IF IndexOf(h, col) = -1 THEN "" ELSE r[LastIndexOf(h, col) + 1]

static_columns_to_analyze == <<"Reviewer 1", "Reviewer 2", "Reviewer 3">>

\* The header columns that match E<number>name, in header order.
EColumnsToAnalyze(h) == SelectSeq(h, LAMBDA col : MatchIndexed("E", "name", col))

\* The required columns that the header lacks.
MissingCols(h) ==
    SelectSeq(static_columns_to_analyze \o EColumnsToAnalyze(h),
              LAMBDA col : IndexOf(h, col) = -1)

\* The decision filter of analyze_reviewers: the field itself is compared.
ARRetained(h, r) ==
    ~IsNone(h, r, "Decision") /\ Get(h, r, "Decision") \in {"RER", "ERER"}

\* The names collected from the cells of row r under the columns cols, from the
\* k-th column on; None under a column raises AttributeError.
RECURSIVE ARCollect(_, _, _, _, _)
ARCollect(h, r, cols, k, acc) ==
    IF k > Len(cols) THEN [names |-> acc, raised |-> FALSE]
    ELSE IF IsNone(h, r, cols[k]) THEN [names |-> acc, raised |-> TRUE]
    ELSE
        LET value == strip(Get(h, r, cols[k]))
        IN  ARCollect(h, r, cols, k + 1,
                      IF value # "" THEN acc \o SplitTrimmed(value) ELSE acc)

\* One pass of the loop body on row r.
ARProcessRow(l, h, r) ==
    IF ~ARRetained(h, r) THEN [locals |-> l, raised |-> FALSE]
    ELSE
        LET st == ARCollect(h, r, static_columns_to_analyze, 1, l.all_reviewers)
            l1 == [l EXCEPT !.all_reviewers = st.names]
        IN  IF st.raised THEN [locals |-> l1, raised |-> TRUE]
            ELSE
                LET e == ARCollect(h, r, l.e_columns_to_analyze, 1, l.all_e_reviewers)
                IN  [locals |-> [l1 EXCEPT !.all_e_reviewers = e.names],
                     raised |-> e.raised]

\* Counter(xs)[x]
CountIn(xs, x) == Cardinality({k \in 1..Len(xs) : xs[k] = x})

Range(xs) == {xs[k] : k \in 1..Len(xs)}

\* final_counts: Counter(all_reviewers) with Counter(all_e_reviewers) subtracted.
FinalCounts(all_reviewers, all_e_reviewers) ==
    [x \in Range(all_reviewers) \cup Range(all_e_reviewers) |->
        CountIn(all_reviewers, x) - CountIn(all_e_reviewers, x)]

\* print(f'"{reviewer}",{count}')
ARLine(reviewer, count) == "\"" \o reviewer \o "\"," \o ToString(count)

\* The lines printed after the loop.
AROutput(l) ==
    LET final_counts == FinalCounts(l.all_reviewers, l.all_e_reviewers)
        names == sorted(DOMAIN final_counts)
    IN  IF DOMAIN final_counts # {}
        THEN <<"name,count">> \o [k \in 1..Len(names) |-> ARLine(names[k], final_counts[names[k]])]
        ELSE <<"No reviewer data found to combine.">>

RECURSIVE JoinWith(_, _)
JoinWith(xs, sep) ==
    IF xs = <<>> THEN ""
    ELSE IF Len(xs) = 1 THEN xs[1]
    ELSE xs[1] \o sep \o JoinWith(Tail(xs), sep)

MissingColsMsg(h) ==
    "Error: The following required columns are missing from the CSV file: "
        \o JoinWith(MissingCols(h), ", ")

NoneStripMsg == "An error occurred: 'NoneType' object has no attribute 'strip'"

\* open(), DictReader and the check of the required columns: where the run goes
\* next, the locals, what is printed and the exit status if the run ends here.
AROpenStep(f) ==
    IF ~f.exists
    THEN [pc |-> "done", locals |-> [started |-> TRUE],
          out |-> <<"Error: The file was not found.">>, returncode |-> 1]
    ELSE IF MissingCols(f.header) # <<>>
    THEN [pc |-> "done", locals |-> [started |-> TRUE],
          out |-> <<MissingColsMsg(f.header)>>, returncode |-> 0]
    ELSE [pc |-> "rows",
          locals |-> [all_reviewers |-> <<>>, all_e_reviewers |-> <<>>,
                      e_columns_to_analyze |-> EColumnsToAnalyze(f.header)],
          out |-> <<>>, returncode |-> -1]

AROpen ==
    /\ script = "analyze_reviewers"
    /\ pc = "start"
    /\ LET step == AROpenStep(argv.file_path)
       IN  /\ pc' = step.pc
           /\ locals' = step.locals
           /\ stdout' = stdout \o step.out
           /\ returncode' = step.returncode
    /\ UNCHANGED <<script, argv, line, row, stderr>>

\* for row in reader: one line of the file (DictReader passes over blank lines).
ARRow ==
    /\ script = "analyze_reviewers"
    /\ pc = "rows"
    /\ line < Len(argv.file_path.rows)
    /\ LET r   == argv.file_path.rows[line + 1]
           res == ARProcessRow(locals, argv.file_path.header, r)
       IN  /\ line' = line + 1
           /\ IF r = <<>>
              THEN UNCHANGED <<row, locals, stdout, pc, returncode>>
              ELSE /\ row' = r
                   /\ locals' = res.locals
                   /\ IF res.raised
                      THEN /\ stdout' = Say(stdout, NoneStripMsg)
                           /\ pc' = "done"
                           /\ returncode' = 1
                      ELSE UNCHANGED <<stdout, pc, returncode>>
    /\ UNCHANGED <<script, argv, stderr>>

\* The reader is exhausted: print the combined counts.
ARPrint ==
    /\ script = "analyze_reviewers"
    /\ pc = "rows"
    /\ line = Len(argv.file_path.rows)
    /\ stdout' = stdout \o AROutput(locals)
    /\ pc' = "done"
    /\ returncode' = 0
    /\ UNCHANGED <<script, argv, line, row, locals, stderr>>

\* Submissions exports given to analyze_reviewers.
ARHeaderFull == <<"Decision", "Reviewer 1", "Reviewer 2", "Reviewer 3", "E1name", "E2name">>

ARHeaderNoDecision == <<"Reviewer 1", "Reviewer 2", "Reviewer 3", "E1name">>

ARHeaderNoStatic == <<"Decision", "Reviewer 1", "Reviewer 3", "E1name">>

ARRowsFull ==
    { <<"RER", "Dave", "", "", "Dave", "Erin">>,
      <<"ERER", "Dave, Erin", "Fay", "Dave", "", "">>,
      <<" RER", "Fay", "", "", "Dave", "">>,
      <<"A", "Dave", "Erin", "Fay", "Dave", "Erin">>,
      <<"RER", "", "", "", "Fay", " Fay , Dave">>,
      <<"RER", "Dave">>,
      <<"R">>,
      <<>> }

ARRowsOther == { <<"RER", "Dave", "Erin", "Fay">>, <<"Dave", "RER", "", "Erin">> }

ARFiles ==
    FilesOver(ARHeaderFull, ARRowsFull)
        \cup FilesOver(ARHeaderNoDecision, ARRowsOther)
        \cup FilesOver(ARHeaderNoStatic, ARRowsOther)
        \cup {NoFile}

InitAR == \E f \in ARFiles : Started("analyze_reviewers", [file_path |-> f])

NextAR == AROpen \/ ARRow \/ ARPrint

SpecAR == InitAR /\ [][NextAR]_vars

-----------------------------------------------------------------------------
(* extract_review_declines.py *)

\* A date that failed to parse (strptime raised ValueError).
BadDate == [ok |-> FALSE, y |-> 0, m |-> 0, d |-> 0]

Date(y, m, d) == [ok |-> TRUE, y |-> y, m |-> m, d |-> d]

IsLeap(y) == (y % 4 = 0 /\ y % 100 # 0) \/ y % 400 = 0

DaysIn(y, m) ==
    IF m = 2 THEN (IF IsLeap(y) THEN 29 ELSE 28)
    ELSE IF m \in {4, 6, 9, 11} THEN 30 ELSE 31

\* A field of one or two digits with a value in lo..hi.
TwoDigits(s, lo, hi) == AllDigits(s) /\ Len(s) <= 2 /\ ToNat(s) >= lo /\ ToNat(s) <= hi

\* datetime.strptime(s, '%Y-%m-%d').date()
ParseIsoDate(s) ==
    LET p == split(s, "-", "")
    IN  IF /\ Len(p) = 3
           /\ AllDigits(p[1]) /\ Len(p[1]) = 4
           /\ TwoDigits(p[2], 1, 12)
           /\ TwoDigits(p[3], 1, DaysIn(ToNat(p[1]), ToNat(p[2])))
        THEN Date(ToNat(p[1]), ToNat(p[2]), ToNat(p[3]))
        ELSE BadDate

MonthAbbr == <<"Jan", "Feb", "Mar", "Apr", "May", "Jun", "Jul", "Aug", "Sep", "Oct", "Nov", "Dec">>

\* datetime.strptime(f"{s} {year}", '%b %d %H:%M %Y').date(), for month names
\* written as in MonthAbbr; runs of blanks separate the fields.
ParseLogDate(s, year) ==
    LET p  == SelectSeq(split(s, " ", ""), LAMBDA t : t # "")
        hm == IF Len(p) = 3 THEN split(p[3], ":", "") ELSE <<>>
        m  == IF Len(p) = 3 THEN IndexOf(MonthAbbr, p[1]) + 1 ELSE 0
    IN  IF /\ Len(p) = 3
           /\ m >= 1
           /\ TwoDigits(p[2], 1, DaysIn(year, m))
           /\ Len(hm) = 2
           /\ TwoDigits(hm[1], 0, 23)
           /\ TwoDigits(hm[2], 0, 59)
        THEN Date(year, m, ToNat(p[2]))
        ELSE BadDate

\* A slip that would leave out the rows dated on the cut-off day itself.
DateGeq_Strict(a, b) ==
    \/ a.y > b.y
    \/ a.y = b.y /\ a.m > b.m
    \/ a.y = b.y /\ a.m = b.m /\ a.d > b.d

\* a >= b on dates
DateGeq(a, b) ==
    \/ a.y > b.y
    \/ a.y = b.y /\ a.m > b.m
    \/ a.y = b.y /\ a.m = b.m /\ a.d >= b.d

\* The position of the first header column that starts with "Subject", or -1.
SubjectIndex(h) ==
    LET hits == {k \in 1..Len(h) : startswith(h[k], "Subject")}
    IN  IF hits = {} THEN -1 ELSE (CHOOSE k \in hits : \A j \in hits : k <= j) - 1

\* subject_content.split(" declines to review")[0].strip()
DeclinerName(subject_content) ==
    LET i == Find(subject_content, " declines to review")
    IN  strip(IF i = 0 THEN subject_content ELSE SubSeq(subject_content, 1, i - 1))

\* len(row) > max(date_col_index, submission_col_index, subject_col_index)
ERDRowFits(l, r) ==
    Len(r) > Max(l.date_col_index, Max(l.submission_col_index, l.subject_col_index))

\* One pass of the loop body on row r: what it writes to stdout and to stderr.
ERDProcessRow(l, r) ==
    IF ~ERDRowFits(l, r) THEN [out |-> <<>>, err |-> <<>>]
    ELSE
        LET row_date        == ParseLogDate(At(r, l.date_col_index), l.current_year)
            subject_content == At(r, l.subject_col_index)
        IN  IF ~row_date.ok
            THEN [out |-> <<>>, err |-> <<"Warning: Could not parse date in row. Skipping.">>]
            ELSE IF /\ DateGeq(row_date, l.oldest_date)
                    /\ Find(subject_content, "declines to review") # 0
            THEN [out |-> << <<At(r, l.submission_col_index), DeclinerName(subject_content)>> >>,
                  err |-> <<>>]
            ELSE [out |-> <<>>, err |-> <<>>]

\* The date argument, open(), the header scan and the output header: where the
\* run goes next, the locals, and what is written to stdout and to stderr.
ERDOpenStep(f, oldest_date_str, year) ==
    LET oldest_date == ParseIsoDate(oldest_date_str)
        l == [oldest_date          |-> oldest_date,
              date_col_index       |-> IndexOf(f.header, "Date"),
              submission_col_index |-> IndexOf(f.header, "Submission"),
              subject_col_index    |-> SubjectIndex(f.header),
              current_year         |-> year]
    IN  IF ~oldest_date.ok
        THEN [pc |-> "done", locals |-> l, out |-> <<>>,
              err |-> <<"Error: Invalid date format. Please use YYYY-MM-DD.">>]
        ELSE IF ~f.exists
        THEN [pc |-> "done", locals |-> l, out |-> <<>>,
              err |-> <<"Error: The file was not found.">>]
        ELSE IF l.date_col_index = -1 \/ l.submission_col_index = -1 \/ l.subject_col_index = -1
        THEN [pc |-> "done", locals |-> l, out |-> <<>>,
              err |-> <<"Error: The CSV file must contain 'Date', 'Submission', and a column starting with 'Subject'.">>]
        ELSE [pc |-> "rows", locals |-> l, out |-> << <<"Submission", "Name">> >>, err |-> <<>>]

ERDOpen ==
    /\ script = "extract_review_declines"
    /\ pc = "start"
    /\ LET step == ERDOpenStep(argv.file_path, argv.oldest_date, argv.current_year)
       IN  /\ pc' = step.pc
           /\ locals' = step.locals
           /\ stdout' = stdout \o step.out
           /\ stderr' = stderr \o step.err
           /\ returncode' = IF step.pc = "done" THEN 0 ELSE returncode
    /\ UNCHANGED <<script, argv, line, row>>

\* for row in reader: one data row.
ERDRow ==
    /\ script = "extract_review_declines"
    /\ pc = "rows"
    /\ line < Len(argv.file_path.rows)
    /\ LET r   == argv.file_path.rows[line + 1]
           res == ERDProcessRow(locals, r)
       IN  /\ row' = r
           /\ line' = line + 1
           /\ stdout' = stdout \o res.out
           /\ stderr' = stderr \o res.err
    /\ UNCHANGED <<script, argv, pc, locals, returncode>>

\* The reader is exhausted.
ERDEnd ==
    /\ script = "extract_review_declines"
    /\ pc = "rows"
    /\ line = Len(argv.file_path.rows)
    /\ pc' = "done"
    /\ returncode' = 0
    /\ UNCHANGED <<script, argv, line, row, locals, stdout, stderr>>

\* Email logs given to extract_review_declines.
ERDHeaderFull == <<"Date", "Submission", "Subject line">>

ERDHeaderNoDate == <<"Submission", "Subject line">>

ERDHeaderNoSubject == <<"Date", "Submission", "Topic">>

ERDRowsFull ==
    { <<"Jan 05 10:30", "101", "Carol declines to review">>,
      <<"Mar 12 09:00", "102", "Dave declines to review submission 102">>,
      <<"Mar 12 9:05", "103", "Dave agrees to review">>,
      <<"Feb 30 10:00", "104", "Erin declines to review">>,
      <<"Feb  1 00:00", "105", " Erin  declines to review">>,
      <<"2025-03-01", "106", "Fay declines to review">>,
      <<"Mar 14 10:00", "107", "declines to review: Dave">>,
      <<"Mar 15 11:00", "108">> }

ERDRowsOther == { <<"101", "Carol declines to review">>, <<"Mar 12 09:00", "102", "x">> }

ERDFiles ==
    FilesOver(ERDHeaderFull, ERDRowsFull)
        \cup FilesOver(ERDHeaderNoDate, ERDRowsOther)
        \cup FilesOver(ERDHeaderNoSubject, ERDRowsOther)
        \cup {NoFile}

\* The cut-off dates tried, and strings that are no date.
ERDDates == {"2025-02-01", "2025-3-13"}

ERDBadDates == {"02/01/2025", "2025-02-30"}

\* The email logs that are run with the strings that are no date.
ERDFilesShort == {f \in ERDFiles : Len(f.rows) <= 1}

\* datetime.now().year on the day of the run.
CurrentYear == 2025

InitERD ==
    \/ \E f \in ERDFiles, d \in ERDDates :
          Started("extract_review_declines",
                  [file_path |-> f, oldest_date |-> d, current_year |-> CurrentYear])
    \/ \E f \in ERDFilesShort, d \in ERDBadDates :
          Started("extract_review_declines",
                  [file_path |-> f, oldest_date |-> d, current_year |-> CurrentYear])

NextERD == ERDOpen \/ ERDRow \/ ERDEnd

SpecERD == InitERD /\ [][NextERD]_vars

-----------------------------------------------------------------------------
(* find_available_declines.py *)

\* A whole run of analyze_reviewers.py as a subprocess: rows k.. of file f.
RECURSIVE ARRunRows(_, _, _)
ARRunRows(l, f, k) ==
    IF k > Len(f.rows) THEN [returncode |-> 0, stdout |-> AROutput(l), stderr |-> <<>>]
    ELSE IF f.rows[k] = <<>> THEN ARRunRows(l, f, k + 1)
    ELSE
        LET res == ARProcessRow(l, f.header, f.rows[k])
        IN  IF res.raised
            THEN [returncode |-> 1, stdout |-> <<NoneStripMsg>>, stderr |-> <<>>]
            ELSE ARRunRows(res.locals, f, k + 1)

ARRun(f) ==
    LET step == AROpenStep(f)
    IN  IF step.pc = "done"
        THEN [returncode |-> step.returncode, stdout |-> step.out, stderr |-> <<>>]
        ELSE ARRunRows(step.locals, f, 1)

\* csv.writer with the default dialect: a field is quoted when it holds a comma,
\* a quote or a line break, and a quote inside it is doubled.
RECURSIVE DoubleQuotes(_)
DoubleQuotes(s) ==
    IF s = "" THEN ""
    ELSE (IF CharAt(s, 1) = "\"" THEN "\"\"" ELSE CharAt(s, 1)) \o DoubleQuotes(Tail(s))

CsvField(s) ==
    IF Find(s, ",") # 0 \/ Find(s, "\"") # 0 \/ Find(s, "\n") # 0 \/ Find(s, "\r") # 0
    THEN "\"" \o DoubleQuotes(s) \o "\""
    ELSE s

\* The text line writer.writerow(fields) produces, without its line terminator.
CsvLine(fields) == JoinWith([k \in 1..Len(fields) |-> CsvField(fields[k])], ",")

\* A whole run of extract_review_declines.py as a subprocess: rows k.. of file f.
RECURSIVE ERDRunRows(_, _, _, _, _)
ERDRunRows(l, f, k, out, err) ==
    IF k > Len(f.rows) THEN [returncode |-> 0, stdout |-> out, stderr |-> err]
    ELSE
        LET res == ERDProcessRow(l, f.rows[k])
        IN  ERDRunRows(l, f, k + 1,
                       out \o [j \in 1..Len(res.out) |-> CsvLine(res.out[j])],
                       err \o res.err)

ERDRun(f, oldest_date_str, year) ==
    LET step == ERDOpenStep(f, oldest_date_str, year)
        out  == [j \in 1..Len(step.out) |-> CsvLine(step.out[j])]
    IN  IF step.pc = "done"
        THEN [returncode |-> 0, stdout |-> out, stderr |-> step.err]
        ELSE ERDRunRows(step.locals, f, 1, out, step.err)

\* csv.reader on one line of text whose quotes all delimit quoted fields: a comma
\* separates two fields when an even number of quotes precedes it; a field that
\* starts with a quote loses its outer quotes and has its doubled quotes halved.
RECURSIVE Undouble(_)
Undouble(s) ==
    IF s = "" THEN ""
    ELSE IF CharAt(s, 1) = "\"" /\ CharAt(s, 2) = "\""
    THEN "\"" \o Undouble(Tail(Tail(s)))
    ELSE CharAt(s, 1) \o Undouble(Tail(s))

Unquote(raw) ==
    IF startswith(raw, "\"") THEN Undouble(SubSeq(raw, 2, Len(raw) - 1)) ELSE raw

Separators(s) ==
    {i \in 1..Len(s) :
        /\ CharAt(s, i) = ","
        /\ Cardinality({j \in 1..(i - 1) : CharAt(s, j) = "\""}) % 2 = 0}

CsvParse(s) ==
    LET seps   == Separators(s)
        \* the k-th separator, counting the end of the line as the last one
        Cut(k) == IF k = 0 THEN 0
                  ELSE IF k > Cardinality(seps) THEN Len(s) + 1
                  ELSE CHOOSE i \in seps : Cardinality({j \in seps : j < i}) = k - 1
    IN  [k \in 1..(Cardinality(seps) + 1) |-> Unquote(SubSeq(s, Cut(k - 1) + 1, Cut(k) - 1))]

\* csv.DictReader(io.StringIO(text)): the header fields and the data rows.
DictReader(lines) ==
    IF lines = <<>> THEN [fieldnames |-> <<>>, rows |-> <<>>]
    ELSE [fieldnames |-> CsvParse(lines[1]),
          rows |-> [k \in 1..(Len(lines) - 1) |-> CsvParse(lines[k + 1])]]

\* int(s) for an optionally signed string of digits; IsInt tells whether int(s)
\* returns at all.
IsInt(s) == AllDigits(s) \/ (startswith(s, "-") /\ AllDigits(Tail(s)))

ToInt(s) == IF startswith(s, "-") THEN 0 - ToNat(Tail(s)) ELSE ToNat(s)

\* Step 3, first half: reviewer_counts from the reviewers' output, a later row
\* of a name replacing an earlier one.
RECURSIVE ReviewerCounts(_, _, _)
ReviewerCounts(t, k, d) ==
    IF k > Len(t.rows) THEN d
    ELSE ReviewerCounts(t, k + 1,
                        Put(d, Get(t.fieldnames, t.rows[k], "name"),
                            ToInt(Get(t.fieldnames, t.rows[k], "count"))))

\* The rows of a parsed table on which row[col] raises KeyError, or gives None.
Unreadable(t, col) ==
    \E k \in 1..Len(t.rows) :
        IndexOf(t.fieldnames, col) = -1 \/ IsNone(t.fieldnames, t.rows[k], col)

\* Step 3, second half: declined_names, in the order of the declines' output.
DeclinedNames(t) == [k \in 1..Len(t.rows) |-> Get(t.fieldnames, t.rows[k], "Name")]

\* list(Counter(xs)): the distinct elements in the order of their first occurrence.
RECURSIVE Distinct(_)
Distinct(xs) ==
    IF xs = <<>> THEN <<>>
    ELSE LET init == Distinct(SubSeq(xs, 1, Len(xs) - 1))
         IN  IF xs[Len(xs)] \in Range(init) THEN init ELSE Append(init, xs[Len(xs)])

\* A slip that would let a zero tally through.
HasReviews_NonNegative(reviewer_counts, name) == Val0(reviewer_counts, name) >= 0

\* reviewer_counts.get(name, 0) > 0
HasReviews(reviewer_counts, name) == Val0(reviewer_counts, name) > 0

\* Step 4: the rows written after the header, one per declined name that has reviews.
JoinRows(declined_names, reviewer_counts) ==
    LET names == SelectSeq(Distinct(declined_names),
                           LAMBDA name : HasReviews(reviewer_counts, name))
    IN  [k \in 1..Len(names) |->
            <<names[k], ToString(CountIn(declined_names, names[k])),
              \* reviewer_counts.get(name): None is written as the empty string
              IF names[k] \in DOMAIN reviewer_counts
              THEN ToString(reviewer_counts[names[k]]) ELSE "">>]

FADOutputHeader == <<"name", "declines_count", "reviewer_count">>

\* The two lines printed for a CalledProcessError (a printed line is a row of one field).
SubprocessFailed(process) ==
    << <<"Error: A subprocess failed with a non-zero exit code.">>,
       <<"Stderr: " \o JoinWith(process.stderr, "\n")>> >>

\* Step 1: run analyze_reviewers.py on the submissions file and wait for it.
FADRunReviewers ==
    /\ script = "find_available_declines"
    /\ pc = "start"
    /\ LET reviewers_process == ARRun(argv.submissions_csv_path)
       IN  IF reviewers_process.returncode # 0
           THEN /\ stdout' = stdout \o SubprocessFailed(reviewers_process)
                /\ pc' = "done"
                /\ returncode' = 0
                /\ UNCHANGED locals
           ELSE /\ locals' = [reviewers_output |-> reviewers_process.stdout]
                /\ pc' = "declines"
                /\ UNCHANGED <<stdout, returncode>>
    /\ UNCHANGED <<script, argv, line, row, stderr>>

\* Step 2: run extract_review_declines.py on the email log and wait for it.
FADRunDeclines ==
    /\ script = "find_available_declines"
    /\ pc = "declines"
    /\ LET declines_process ==
               ERDRun(argv.email_log_csv_path, argv.date_to_filter, argv.current_year)
       IN  IF declines_process.returncode # 0
           THEN /\ stdout' = stdout \o SubprocessFailed(declines_process)
                /\ pc' = "done"
                /\ returncode' = 0
                /\ UNCHANGED locals
           ELSE /\ locals' = [reviewers_output |-> locals.reviewers_output,
                              declines_output  |-> declines_process.stdout,
                              declines_stderr  |-> declines_process.stderr]
                /\ pc' = "parse"
                /\ UNCHANGED <<stdout, returncode>>
    /\ UNCHANGED <<script, argv, line, row, stderr>>

\* Step 3: read both outputs back as tables.  A row that lacks a column it reads,
\* or a count that is no integer, ends the run with a traceback.
FADParse ==
    /\ script = "find_available_declines"
    /\ pc = "parse"
    /\ LET reviewers == DictReader(locals.reviewers_output)
           declines  == DictReader(locals.declines_output)
       IN  IF \/ Unreadable(reviewers, "name") \/ Unreadable(reviewers, "count")
              \/ \E k \in 1..Len(reviewers.rows) :
                    ~IsInt(Get(reviewers.fieldnames, reviewers.rows[k], "count"))
              \/ Unreadable(declines, "Name")
           THEN /\ stderr' = Say(stderr, "Traceback (most recent call last)")
                /\ pc' = "done"
                /\ returncode' = 1
                /\ UNCHANGED locals
           ELSE /\ locals' = [reviewers_output |-> locals.reviewers_output,
                              declines_output  |-> locals.declines_output,
                              declines_stderr  |-> locals.declines_stderr,
                              reviewer_counts  |-> ReviewerCounts(reviewers, 1, EmptyDict),
                              declined_names   |-> DeclinedNames(declines)]
                /\ pc' = "join"
                /\ UNCHANGED <<stderr, returncode>>
    /\ UNCHANGED <<script, argv, line, row, stdout>>

\* Step 4: the header, the matching rows and, if there were none, the notice.
FADJoin ==
    /\ script = "find_available_declines"
    /\ pc = "join"
    /\ LET rows == JoinRows(locals.declined_names, locals.reviewer_counts)
       IN  stdout' = stdout \o <<FADOutputHeader>> \o rows
                       \o (IF rows = <<>>
                           THEN << <<"No matching names found with a reviewer count greater than zero.">> >>
                           ELSE <<>>)
    /\ pc' = "done"
    /\ returncode' = 0
    /\ UNCHANGED <<script, argv, line, row, locals, stderr>>

\* Submissions exports given to the orchestrator.
FADSubmissions ==
    { File(ARHeaderFull, << <<"RER", "Dave", "Dave", "Dave", "", "Erin">> >>),
      File(ARHeaderFull, << <<"RER", "Dave", "", "", "Dave", "Erin">>,
                            <<"ERER", "Dave, Erin", "Fay", "Dave", "", "">>,
                            <<"RER", "", "", "", "Fay", " Fay , Dave">> >>),
      File(ARHeaderFull, << <<"RER", "Carol, Dave", "Erin", "", "Erin", "Fay">>,
                            <<"A", "Fay", "Fay", "Fay", "", "">> >>),
      File(ARHeaderFull, <<>>),
      File(ARHeaderFull, << <<"RER", "Dave", "", "", "", "">>, <<"RER", "Dave">> >>),
      File(ARHeaderNoStatic, << <<"RER", "Dave", "Erin", "Fay">> >>),
      NoFile }

FADLogRows ==
    { <<"Mar 12 09:00", "102", "Dave declines to review submission 102">>,
      <<"Mar 13 09:00", "103", "Dave declines to review">>,
      <<"Mar 14 10:00", "104", "Erin declines to review">>,
      <<"Mar 15 10:00", "105", "Fay declines to review">>,
      <<"Jan 05 10:30", "101", "Carol declines to review">> }

FADLogs ==
    FilesOver(ERDHeaderFull, FADLogRows)
        \cup {File(ERDHeaderNoDate, << <<"102", "Dave declines to review">> >>), NoFile}

FADDates == {"2025-03-13"}

FADOtherDates == {"2025-01-01", "03/13/2025", "2025-13-01"}

\* The email logs that are run with the other date arguments.
FADLogsShort == {f \in FADLogs : Len(f.rows) <= 1}

InitFAD ==
    \/ \E s \in FADSubmissions, e \in FADLogs, d \in FADDates :
          Started("find_available_declines",
                  [date_to_filter |-> d, submissions_csv_path |-> s,
                   email_log_csv_path |-> e, current_year |-> CurrentYear])
    \/ \E s \in FADSubmissions, e \in FADLogsShort, d \in FADOtherDates :
          Started("find_available_declines",
                  [date_to_filter |-> d, submissions_csv_path |-> s,
                   email_log_csv_path |-> e, current_year |-> CurrentYear])

NextFAD == FADRunReviewers \/ FADRunDeclines \/ FADParse \/ FADJoin

SpecFAD == InitFAD /\ [][NextFAD]_vars

-----------------------------------------------------------------------------
(* extract_paper_scores.py *)

\* re.match(r'\w\d+' + suffix, s)
MatchWordIndexed(suffix, s) ==
    LET n == DigitRun(s, 2)
    IN  /\ IsWordChar(CharAt(s, 1))
        /\ n >= 1
        /\ startswith(SubSeq(s, n + 2, Len(s)), suffix)

\* re.match(r'\w[\d]?' + suffix, s)
MatchWordOptDigit(suffix, s) ==
    /\ IsWordChar(CharAt(s, 1))
    /\ \/ startswith(SubSeq(s, 2, Len(s)), suffix)
       \/ IsDigit(CharAt(s, 2)) /\ startswith(SubSeq(s, 3, Len(s)), suffix)

\* The branch of the if/elif chain of the header scan that takes column_name.
ColumnKind(column_name) ==
    IF column_name = "ID" THEN "id"
    ELSE IF column_name = "Pscore" THEN "p_score"
    ELSE IF column_name = "Decision" THEN "decision"
    ELSE IF column_name = "PReviewer Recommendation" THEN "meta_recommendation"
    ELSE IF MatchIndexed("S", "score", column_name) THEN "pc"
    ELSE IF MatchIndexed("E", "score", column_name) THEN "reviewer"
    ELSE IF MatchWordIndexed("Reviewer Recommendation", column_name) THEN "recommendation"
    ELSE IF MatchWordOptDigit("Discuss at PC Meeting", column_name) THEN "discuss"
    ELSE IF MatchWordOptDigit("name", column_name) THEN "name"
    ELSE "other"

\* The positions of the header columns of one kind, in header order.
ColumnsOfKind(header, kind) ==
    SelectSeq(Positions(header), LAMBDA i : ColumnKind(header[i + 1]) = kind)

LastOfKind(header, kind) ==
    LET cols == ColumnsOfKind(header, kind)
    IN  IF cols = <<>> THEN -1 ELSE cols[Len(cols)]

\* The locals of analyze_csv once the header has been scanned.
EPSResolve(header, time_zone_data) ==
    [ id_index                   |-> LastOfKind(header, "id"),
      p_score_index              |-> LastOfKind(header, "p_score"),
      decision_index             |-> LastOfKind(header, "decision"),
      meta_recommendation_column |-> LastOfKind(header, "meta_recommendation"),
      pc_columns                 |-> ColumnsOfKind(header, "pc"),
      reviewer_columns           |-> ColumnsOfKind(header, "reviewer"),
      recommendation_columns     |-> ColumnsOfKind(header, "recommendation"),
      discuss_columns            |-> ColumnsOfKind(header, "discuss"),
      name_columns               |-> ColumnsOfKind(header, "name"),
      time_zone_data             |-> time_zone_data ]

\* decision_map: the score of a recommendation code.
decision_map ==
    [c \in {"A", "MnR", "MnMaR", "MaR", "RMa", "R"} |->
        CASE c = "A" -> "6.0"
          [] c = "MnR" -> "5.0"
          [] c = "MnMaR" -> "4.0"
          [] c = "MaR" -> "3.0"
          [] c = "RMa" -> "2.0"
          [] c = "R" -> "1.0"]

\* The decision filter of extract_paper_scores.
EPSRetained(r, decision_index) ==
    strip(At(r, decision_index)) \in {"RER", "ERER", "A-N", "Minor-N", "Major-N", "R-N", "T"}

\* The Decision field as it is written: RER and T are written as the empty string.
EPSDecisionValue(r, decision_index) ==
    LET decision_value == strip(At(r, decision_index))
    IN  IF decision_value = "RER" \/ decision_value = "T" THEN "" ELSE decision_value

\* The tags shared by the participants of row r: the first name column starts the
\* set, when its participant is in the lookup; every later name column whose
\* participant is in the lookup is intersected into it.
RECURSIVE IntersectNames(_, _, _, _)
IntersectNames(l, r, k, location_intersection) ==
    IF k > Len(l.name_columns) THEN location_intersection
    ELSE IF At(r, l.name_columns[k]) \in DOMAIN l.time_zone_data
    THEN IntersectNames(l, r, k + 1,
                        Range(l.time_zone_data[At(r, l.name_columns[k])])
                            \cap location_intersection)
    ELSE IntersectNames(l, r, k + 1, location_intersection)

Locations(l, r) ==
    LET first == IF At(r, l.name_columns[1]) \in DOMAIN l.time_zone_data
                 THEN Range(l.time_zone_data[At(r, l.name_columns[1])])
                 ELSE {}
    IN  sorted(IntersectNames(l, r, 2, first))

DiscussFlag(l, r) ==
    \E k \in 1..Len(l.discuss_columns) : At(r, l.discuss_columns[k]) = "Discuss"

\* The decimal scores of the columns cols, in column order.
DecimalScores(r, cols) ==
    LET scores == [k \in 1..Len(cols) |-> At(r, cols[k])]
    IN  SelectSeq(scores, MatchDecimal)

\* while len(row_array) < n: row_array.append("")
PadTo(row_array, n) ==
    row_array \o [k \in 1..(n - Len(row_array)) |-> ""]

\* The non-empty recommendation fields, in column order.
Recommendations(l, r) ==
    SelectSeq([k \in 1..Len(l.recommendation_columns) |-> At(r, l.recommendation_columns[k])],
              LAMBDA v : v # "")

\* str() of a list of strings and of a bool, as csv.writer writes them.
PyList(xs) == "[" \o JoinWith([k \in 1..Len(xs) |-> "'" \o xs[k] \o "'"], ", ") \o "]"

PyBool(b) == IF b THEN "True" ELSE "False"

\* Width of the row before the Precommendation field, and before the mapped scores.
ScoresWidth == 9

RecommendationsWidth == 14

\* The loop body reads a field that row r does not have (IndexError).
EPSIndexError(l, r) ==
    \/ l.name_columns = <<>>
    \/ \E k \in 1..Len(l.name_columns) : ~HasIndex(r, l.name_columns[k])
    \/ \E k \in 1..Len(l.discuss_columns) :
          /\ ~HasIndex(r, l.discuss_columns[k])
          /\ \A j \in 1..(k - 1) : At(r, l.discuss_columns[j]) # "Discuss"
    \/ ~HasIndex(r, l.id_index)
    \/ ~HasIndex(r, l.p_score_index)
    \/ \E k \in 1..Len(l.pc_columns) : ~HasIndex(r, l.pc_columns[k])
    \/ \E k \in 1..Len(l.reviewer_columns) : ~HasIndex(r, l.reviewer_columns[k])
    \/ ~HasIndex(r, l.meta_recommendation_column)
    \/ \E k \in 1..Len(l.recommendation_columns) : ~HasIndex(r, l.recommendation_columns[k])

\* A slip that would give an unknown recommendation code a default score.
EPSKeyError_Defaulted(l, r) == FALSE

\* A recommendation field of row r is no key of decision_map (KeyError).
EPSKeyError(l, r) ==
    \/ /\ At(r, l.meta_recommendation_column) # ""
       /\ At(r, l.meta_recommendation_column) \notin DOMAIN decision_map
    \/ \E k \in 1..Len(l.recommendation_columns) :
          /\ At(r, l.recommendation_columns[k]) # ""
          /\ At(r, l.recommendation_columns[k]) \notin DOMAIN decision_map

\* The key the first failing decision_map lookup of row r asks for: the
\* meta-recommendation is looked up before the reviewer recommendations.
EPSMissingKey(l, r) ==
    LET meta == At(r, l.meta_recommendation_column)
        bad  == {k \in 1..Len(l.recommendation_columns) :
                    /\ At(r, l.recommendation_columns[k]) # ""
                    /\ At(r, l.recommendation_columns[k]) \notin DOMAIN decision_map}
    IN  IF meta # "" /\ meta \notin DOMAIN decision_map
        THEN meta
        ELSE At(r, l.recommendation_columns[CHOOSE k \in bad : \A j \in bad : k <= j])

\* decision_map[code]; EPSKeyError keeps a code that is no key from getting here.
MappedScore(code) == IF code \in DOMAIN decision_map THEN decision_map[code] ELSE "0.0"

\* The row_array written for a retained row that raises nothing.
EPSRowArray(l, r) ==
    LET recs  == Recommendations(l, r)
        meta  == At(r, l.meta_recommendation_column)
        head  == <<At(r, l.id_index), PyList(Locations(l, r)), PyBool(DiscussFlag(l, r)),
                   EPSDecisionValue(r, l.decision_index), At(r, l.p_score_index)>>
        part1 == PadTo(head \o DecimalScores(r, l.pc_columns)
                            \o DecimalScores(r, l.reviewer_columns), ScoresWidth)
        part2 == PadTo(part1 \o <<meta>> \o recs, RecommendationsWidth)
    IN  part2 \o <<IF meta # "" THEN MappedScore(meta) ELSE "">>
              \o [k \in 1..Len(recs) |-> MappedScore(recs[k])]

\* One pass of the loop body on row r: the rows written and the error, if any.
EPSProcessRow(l, r) ==
    IF ~HasIndex(r, l.decision_index)
    THEN [out |-> <<>>, err |-> <<IndexErrorMsg>>]
    ELSE IF ~EPSRetained(r, l.decision_index)
    THEN [out |-> <<>>, err |-> <<>>]
    ELSE IF EPSIndexError(l, r)
    THEN [out |-> <<>>, err |-> <<IndexErrorMsg>>]
    ELSE IF EPSKeyError(l, r)
    THEN [out |-> <<>>,
          err |-> <<"An unexpected error occurred: '" \o EPSMissingKey(l, r) \o "'">>]
    ELSE [out |-> <<EPSRowArray(l, r)>>, err |-> <<>>]

EPSOutputHeader ==
    <<"ID", "Locations", "Discuss", "Decision", "Pscore", "", "", "", "", "Precommendation">>

\* extract_time_zone_data on rows k.. of the lookup file: the dict built so far
\* is dropped when a row lacks its 'Slots available' field.
RECURSIVE TimeZoneRows(_, _, _)
TimeZoneRows(f, k, result_dict) ==
    IF k > Len(f.rows) THEN [data |-> result_dict, out |-> <<>>]
    ELSE IF f.rows[k] = <<>> THEN TimeZoneRows(f, k + 1, result_dict)
    ELSE IF IsNone(f.header, f.rows[k], "Slots available")
    THEN [data |-> <<>>, out |-> << <<"An error occurred: 'NoneType' object has no attribute 'split'">> >>]
    ELSE TimeZoneRows(f, k + 1,
                      Put(result_dict, Get(f.header, f.rows[k], "Name"),
                          SplitTrimmed(Get(f.header, f.rows[k], "Slots available"))))

\* time_zone_data as __main__ builds it, and what building it prints (a printed
\* line is a row of one field).
ExtractTimeZoneData(tz) ==
    IF ~tz.given THEN [data |-> <<>>, out |-> <<>>]
    ELSE IF ~tz.file.exists THEN [data |-> <<>>, out |-> << <<"Error: File not found at path">> >>]
    ELSE IF IndexOf(tz.file.header, "Name") = -1 \/ IndexOf(tz.file.header, "Slots available") = -1
    THEN [data |-> <<>>, out |-> << <<"An error occurred: CSV file must contain the following columns">> >>]
    ELSE TimeZoneRows(tz.file, 1, <<>>)

\* __main__ up to the first data row: the lookup, open(), the header scan, the
\* checks of the mandatory columns and the output header.
EPSOpen ==
    /\ script = "extract_paper_scores"
    /\ pc = "start"
    /\ LET f    == argv.input_filepath
           tzd  == ExtractTimeZoneData(argv.time_zone)
           l    == EPSResolve(f.header, tzd.data)
           Fail(msg) == /\ stderr' = Say(stderr, msg)
                        /\ stdout' = stdout \o tzd.out
                        /\ pc' = "done"
                        /\ returncode' = 0
       IN  /\ locals' = l
           /\ IF ~f.exists THEN Fail("Error: The file was not found.")
              ELSE IF l.id_index = -1
              THEN Fail("Error: The CSV file must contain an 'ID' column.")
              ELSE IF l.p_score_index = -1
              THEN Fail("Error: The CSV file must contain an 'Pscore' column.")
              ELSE IF l.decision_index = -1
              THEN Fail("Error: The CSV file must contain a 'Decision' column.")
              ELSE IF l.meta_recommendation_column = -1
              THEN Fail("Error: The CSV file must contain a meta reviewer recommendation column.")
              ELSE /\ stdout' = stdout \o tzd.out \o <<EPSOutputHeader>>
                   /\ pc' = "rows"
                   /\ UNCHANGED <<stderr, returncode>>
    /\ UNCHANGED <<script, argv, line, row>>

\* for row in reader: one data row, written as soon as it is built.
EPSRow ==
    /\ script = "extract_paper_scores"
    /\ pc = "rows"
    /\ line < Len(argv.input_filepath.rows)
    /\ LET r   == argv.input_filepath.rows[line + 1]
           res == EPSProcessRow(locals, r)
       IN  /\ row' = r
           /\ line' = line + 1
           /\ stdout' = stdout \o res.out
           /\ stderr' = stderr \o res.err
           /\ IF res.err # <<>>
              THEN pc' = "done" /\ returncode' = 0
              ELSE UNCHANGED <<pc, returncode>>
    /\ UNCHANGED <<script, argv, locals>>

\* The reader is exhausted.
EPSEnd ==
    /\ script = "extract_paper_scores"
    /\ pc = "rows"
    /\ line = Len(argv.input_filepath.rows)
    /\ pc' = "done"
    /\ returncode' = 0
    /\ UNCHANGED <<script, argv, line, row, locals, stdout, stderr>>

\* Submissions exports given to extract_paper_scores.
EPSHeaderFull ==
    <<"ID", "Decision", "Pscore", "Pname", "S1name", "E1name",
      "S1score", "E1score", "E2score", "E3score", "E4score",
      "PReviewer Recommendation", "S1Reviewer Recommendation", "PDiscuss at PC Meeting">>

EPSHeaderNoNames == <<"ID", "Decision", "Pscore", "PReviewer Recommendation", "S1score">>

EPSHeaderNoID == <<"Decision", "Pscore", "PReviewer Recommendation", "Pname">>

EPSHeaderNoPscore == <<"ID", "Decision", "PReviewer Recommendation", "Pname">>

EPSHeaderNoDecision == <<"ID", "Pscore", "PReviewer Recommendation", "Pname">>

EPSHeaderNoMeta == <<"ID", "Decision", "Pscore", "Pname">>

EPSRowsFull ==
    { <<"1", "RER", "4.50", "Alice", "Bob", "", "4.0", "3.5", "", "", "", "A", "MnR", "Discuss">>,
      <<"2", "A-N", "3.00", "Zed", "Alice", "Bob", "", "T", "", "", "", "", "", "">>,
      <<"3", " T ", "", "Alice", "Zed", "Carol", "2.0", "", "", "", "", "MaR", "X1", "">>,
      <<"4", "ERER", "2.0", "Bob", "", "", "1.0", "2.0", "3.0", "4.0", "5.0", "R", "", "">>,
      <<"5", "R", "1.0", "Alice", "Bob", "", "4.0", "3.5", "", "", "", "Unknown", "", "">>,
      <<"6", "Minor-N", "2.5", "Alice", "Alice", "Carol", "", "", "", "", "", "Unknown", "", "">>,
      <<"7", "RER", "4.0", "Alice">> }

EPSRowsOther == { <<"1", "RER", "4.50", "A", "4.0">>, <<"2", "X", "1.0", "", "">> }

EPSFiles ==
    FilesOver(EPSHeaderFull, EPSRowsFull)
        \cup FilesOver(EPSHeaderNoNames, EPSRowsOther)
        \cup { File(h, << <<"1", "RER", "4.50", "A">> >>) :
                 h \in {EPSHeaderNoID, EPSHeaderNoPscore, EPSHeaderNoDecision, EPSHeaderNoMeta} }
        \cup {NoFile}

TimeZoneHeader == <<"Name", "Slots available">>

\* The lookup files that load.
EPSTimeZones ==
    { [given |-> TRUE, file |-> File(TimeZoneHeader,
            << <<"Alice", "US-East,US-West">>, <<"Bob", "US-West,EU">> >>)],
      [given |-> TRUE, file |-> File(TimeZoneHeader,
            << <<"Alice", "US-West, US-East ,US-West">>, <<"Bob", "EU">>,
               <<"Carol", "US-East,EU,US-West">> >>)] }

\* A run without the second argument, and lookup files that do not load.
EPSTimeZonesEmpty ==
    { [given |-> FALSE, file |-> NoFile],
      [given |-> TRUE, file |-> NoFile],
      [given |-> TRUE, file |-> File(TimeZoneHeader, << <<"Alice", "EU">>, <<"Bob">> >>)],
      [given |-> TRUE, file |-> File(<<"Name", "Slots">>, << <<"Alice", "EU">> >>)] }

\* The submissions files that are run with the lookups that do not load.
EPSFilesShort == {f \in EPSFiles : Len(f.rows) <= 1}

InitEPS ==
    \/ \E f \in EPSFiles, tz \in EPSTimeZones :
          Started("extract_paper_scores", [input_filepath |-> f, time_zone |-> tz])
    \/ \E f \in EPSFilesShort, tz \in EPSTimeZonesEmpty :
          Started("extract_paper_scores", [input_filepath |-> f, time_zone |-> tz])

NextEPS == EPSOpen \/ EPSRow \/ EPSEnd

SpecEPS == InitEPS /\ [][NextEPS]_vars

-----------------------------------------------------------------------------
(* A run of any one of the scripts. *)

Init == InitPNW \/ InitPNRW \/ InitAR \/ InitERD \/ InitFAD \/ InitEPS

Next == NextPNW \/ NextPNRW \/ NextAR \/ NextERD \/ NextFAD \/ NextEPS

Spec == Init /\ [][Next]_vars

\* A run of one of the three aggregating scripts.
InitAggregators == InitPNW \/ InitPNRW \/ InitAR

NextAggregators == NextPNW \/ NextPNRW \/ NextAR

SpecAggregators == InitAggregators /\ [][NextAggregators]_vars

-----------------------------------------------------------------------------
(* Vocabulary of the properties: the input and the output read by column name. *)

\* The field of data row r under the header column named col.
Field(h, r, col) == r[IndexOf(h, col) + 1]

\* A data row with a field under every header column.
FullRow(h, r) == Len(r) >= Len(h)

\* d.get(k, 0)
Val(d, k) == IF k \in DOMAIN d THEN d[k] ELSE 0

\* The numbers n for which the header has both letter<n>name and letter<n>score.
Slots(h, letter) ==
    {IndexedNumber(h[k]) : k \in {j \in 1..Len(h) : MatchIndexed(letter, "name", h[j])}}
        \cap {n \in {IndexedNumber(h[k]) : k \in 1..Len(h)} :
                 IndexOf(h, letter \o n \o "score") # -1}

SlotName(h, r, letter, n) == strip(Field(h, r, letter \o n \o "name"))

SlotScoreOf(h, r, letter, n) == strip(Field(h, r, letter \o n \o "score"))

\* c of a row: named external slots whose score is not exactly 'T'.
RowConfirmed(h, r) ==
    Cardinality({n \in Slots(h, "E") :
                    SlotName(h, r, "E", n) # "" /\ SlotScoreOf(h, r, "E", n) # "T"})

\* t of a row: named external slots whose score is exactly 'T'.
RowTentative(h, r) ==
    Cardinality({n \in Slots(h, "E") :
                    SlotName(h, r, "E", n) # "" /\ SlotScoreOf(h, r, "E", n) = "T"})

\* The value the output table reports for group key under output column col.
Reported(key, col) ==
    LET k == CHOOSE k \in 2..Len(stdout) : stdout[k][1] = key
    IN  stdout[k][IndexOf(stdout[1], col) + 1]

ReportsGroup(key) == \E k \in 2..Len(stdout) : stdout[k][1] = key

PNWCounters ==
    {"low_reviewer_counts", "total_paper_counts", "tentative_reviewer_counts",
     "missing_reviewer_counts", "total_reviewer_counts", "overcommitted_reviewer_counts",
     "pc_completed_reviews_counts", "completed_reviews_counts"}

\* papers_needing_work has just processed a retained row that has all its fields.
PNWRetainedStep ==
    /\ script = "papers_needing_work"
    /\ pc = "rows"
    /\ line' = line + 1
    /\ FullRow(argv.input_filepath.header, row')
    /\ strip(Field(argv.input_filepath.header, row', "Decision")) \in {"RER", "ERER"}

-----------------------------------------------------------------------------
(* C1: in papers_needing_work a retained row with c confirmed and t tentative
   external slots adds max(0, 2-(c+t)) to Missing Reviewers, max(0, c-2) to the
   overcommitted counter, c to Assigned Reviewers and t to Tentative Reviewers of
   its Pname group, and leaves the counters of every other group as they were. *)
C1_RowAddsClampedCounts ==
    [][PNWRetainedStep =>
        LET h   == argv.input_filepath.header
            key == Field(h, row', "Pname")
            c   == RowConfirmed(h, row')
            t   == RowTentative(h, row')
        IN  /\ pc' = "rows"
            /\ Val(locals'.missing_reviewer_counts, key)
                 = Val(locals.missing_reviewer_counts, key) + Max(0, 2 - (c + t))
            /\ Val(locals'.overcommitted_reviewer_counts, key)
                 = Val(locals.overcommitted_reviewer_counts, key) + Max(0, c - 2)
            /\ Val(locals'.total_reviewer_counts, key)
                 = Val(locals.total_reviewer_counts, key) + c
            /\ Val(locals'.tentative_reviewer_counts, key)
                 = Val(locals.tentative_reviewer_counts, key) + t
            /\ \A d \in PNWCounters :
                 /\ DOMAIN locals'[d] = DOMAIN locals[d] \cup {key}
                 /\ \A k \in DOMAIN locals[d] \ {key} : locals'[d][k] = locals[d][k]
      ]_vars

\* A second group exists and a row with three confirmed reviewers has been counted.
C1_Witness ==
    /\ script = "papers_needing_work"
    /\ pc = "rows"
    /\ line >= 2
    /\ FullRow(argv.input_filepath.header, row)
    /\ strip(Field(argv.input_filepath.header, row, "Decision")) \in {"RER", "ERER"}
    /\ RowConfirmed(argv.input_filepath.header, row) = 3
    /\ Cardinality(DOMAIN locals.missing_reviewer_counts) = 2
    /\ locals.overcommitted_reviewer_counts[Field(argv.input_filepath.header, row, "Pname")] = 1
    /\ \E k \in DOMAIN locals.missing_reviewer_counts : locals.missing_reviewer_counts[k] > 0

-----------------------------------------------------------------------------
\* The input of the spec's scenario 2.
ScenarioFile ==
    File(<<"Pname", "Decision", "E1name", "E1score">>,
         << <<"PaperA", "RER", "Alice", "T">>, <<"PaperA", "RER", "Bob", "3.50">> >>)

RanScenario ==
    /\ script = "papers_needing_work"
    /\ argv.input_filepath = ScenarioFile
    /\ pc = "done"

(* C2 as stated: on the scenario input the table reports for PaperA confirmed 1,
   tentative 1, missing 0 and completed external reviews 1. *)
C2_ScenarioAsStated ==
    RanScenario =>
        /\ ReportsGroup("PaperA")
        /\ Reported("PaperA", "Assigned Reviewers") = "1"
        /\ Reported("PaperA", "Tentative Reviewers") = "1"
        /\ Reported("PaperA", "Missing Reviewers") = "0"
        /\ Reported("PaperA", "Completed External Reviews") = "1"

(* C2 amended: on the scenario input the table reports for PaperA confirmed 1,
   tentative 1, completed external reviews 1 and missing 2: each of the two rows
   has one reviewer and adds a deficit of 1. *)
C2_ScenarioPerRow ==
    RanScenario =>
        /\ Len(stdout) = 2
        /\ ReportsGroup("PaperA")
        /\ Reported("PaperA", "Assigned Reviewers") = "1"
        /\ Reported("PaperA", "Tentative Reviewers") = "1"
        /\ Reported("PaperA", "Missing Reviewers") = "2"
        /\ Reported("PaperA", "Completed External Reviews") = "1"

\* The scenario has run to its end and the table has been written.
C2_Witness == RanScenario /\ Len(stdout) = 2 /\ line = 2 /\ stderr = <<>>

-----------------------------------------------------------------------------
\* The tags the participants of row r that are in the lookup tz have in common:
\* nothing when no participant is in the lookup.
SharedTags(h, r, tz) ==
    LET present == {k \in Range(ColumnsOfKind(h, "name")) : At(r, k) \in DOMAIN tz}
    IN  IF present = {} THEN {}
        ELSE {t \in UNION {Range(tz[At(r, k)]) : k \in present} :
                 \A k \in present : t \in Range(tz[At(r, k)])}

\* extract_paper_scores has just written the output row of the row it read.
EPSWroteRow ==
    /\ script = "extract_paper_scores"
    /\ pc = "rows"
    /\ line' = line + 1
    /\ Len(stdout') = Len(stdout) + 1

(* C3 as stated: the Locations value of every output row of extract_paper_scores
   is the sorted, duplicate-free intersection of the tag lists of exactly those
   name-column participants of the row that are in the lookup table; a
   participant that is not in the lookup is skipped, the first one included. *)
C3_LocationsSkipAbsent ==
    [][EPSWroteRow =>
        stdout'[Len(stdout')][2]
            = PyList(sorted(SharedTags(argv.input_filepath.header, row', locals.time_zone_data)))
      ]_vars

-----------------------------------------------------------------------------
\* The rows of the join output: what follows the join header on stdout.
FADJoined == \E k \in 1..Len(stdout) : stdout[k] = FADOutputHeader

FADDataRows == {k \in 1..Len(stdout) : Len(stdout[k]) = 3 /\ stdout[k] # FADOutputHeader}

(* C4: the orchestrator writes a row (name, declines_count, reviewer_count) for
   exactly the names that occur in the decline list and have a strictly positive
   tally in the reviewer table; declines_count is the number of occurrences of the
   name in the decline list, reviewer_count is its tally, and no name gets two rows. *)
C4_JoinRowsExactlyPositiveTally ==
    (script = "find_available_declines" /\ pc = "done" /\ FADJoined) =>
        LET declines == locals.declined_names
            tally    == locals.reviewer_counts
        IN  /\ \A name \in Range(declines) \cup DOMAIN tally :
                  (\E k \in FADDataRows : stdout[k][1] = name)
                      <=> /\ name \in Range(declines)
                          /\ name \in DOMAIN tally
                          /\ tally[name] > 0
            /\ \A k \in FADDataRows :
                  /\ stdout[k][1] \in Range(declines)
                  /\ stdout[k][2] = ToString(CountIn(declines, stdout[k][1]))
                  /\ stdout[k][1] \in DOMAIN tally
                  /\ stdout[k][3] = ToString(tally[stdout[k][1]])
            /\ \A j, k \in FADDataRows : stdout[j][1] = stdout[k][1] => j = k

\* The join wrote a row for a name that declined twice and left out a declined
\* name whose tally is not positive or that has no tally.
C4_Witness ==
    /\ script = "find_available_declines"
    /\ pc = "done"
    /\ FADJoined
    /\ \E k \in FADDataRows : stdout[k] = <<"Dave", "2", "3">>
    /\ \E name \in Range(locals.declined_names) :
          \A k \in FADDataRows : stdout[k][1] # name

-----------------------------------------------------------------------------
\* A sub-extractor of this run fails: an input file is missing, a mandatory column
\* is missing from an input, or the date argument is no date.
SubExtractorFails ==
    \/ ~argv.submissions_csv_path.exists
    \/ MissingCols(argv.submissions_csv_path.header) # <<>>
    \/ ~argv.email_log_csv_path.exists
    \/ IndexOf(argv.email_log_csv_path.header, "Date") = -1
    \/ IndexOf(argv.email_log_csv_path.header, "Submission") = -1
    \/ SubjectIndex(argv.email_log_csv_path.header) = -1
    \/ ~ParseIsoDate(argv.date_to_filter).ok

(* C5 as stated: when a sub-extractor fails (missing input file, missing mandatory
   column, malformed date) the orchestrator writes no join header and no join row. *)
C5_NoJoinAfterFailure ==
    (script = "find_available_declines" /\ SubExtractorFails) =>
        \A k \in 1..Len(stdout) : stdout[k] # FADOutputHeader /\ Len(stdout[k]) # 3

-----------------------------------------------------------------------------
\* The highest column index papers_needing_work resolved from the header.
PNWHighestIndex(l) ==
    LET used == {l.s1_name_index, l.decision_index, l.subcommittee_index}
                  \cup UNION {{l.reviewer_columns[k][1], l.reviewer_columns[k][2]} :
                                 k \in 1..Len(l.reviewer_columns)}
                  \cup UNION {{l.pc_columns[k][1], l.pc_columns[k][2]} :
                                 k \in 1..Len(l.pc_columns)}
    IN  CHOOSE i \in used : \A j \in used : j <= i

\* The data rows of the input that have every resolved field and pass the filter.
PNWValidRetained(f, l) ==
    {k \in 1..Len(f.rows) :
        /\ Len(f.rows[k]) > PNWHighestIndex(l)
        /\ strip(At(f.rows[k], l.decision_index)) \in {"RER", "ERER"}}

(* C6 as stated, for papers_needing_work: a data row with fewer fields than the
   highest resolved column index is skipped and the other rows are still
   processed: at the end every row has been read and the table counts, for each
   group, every valid retained row of the input. *)
C6_ShortRowSkipped ==
    (/\ script = "papers_needing_work"
     /\ pc = "done"
     /\ argv.input_filepath.exists
     /\ LastIndexOf(argv.input_filepath.header, "Pname") # -1
     /\ LastIndexOf(argv.input_filepath.header, "Decision") # -1) =>
        LET f == argv.input_filepath
            valid == PNWValidRetained(f, locals)
        IN  /\ line = Len(f.rows)
            /\ \A k \in valid :
                  LET key == At(f.rows[k], locals.s1_name_index)
                  IN  /\ ReportsGroup(key)
                      /\ Reported(key, "Total Papers")
                           = ToString(Cardinality({j \in valid :
                                   At(f.rows[j], locals.s1_name_index) = key}))

-----------------------------------------------------------------------------
RecommendationCodes == {"A", "MnR", "MnMaR", "MaR", "RMa", "R"}

\* Row r of extract_paper_scores passes the decision filter and holds, under the
\* meta-recommendation or a reviewer-recommendation column, a non-empty value
\* outside the closed set of codes.
UnknownRecommendation(h, r) ==
    /\ FullRow(h, r)
    /\ strip(Field(h, r, "Decision"))
          \in {"RER", "ERER", "A-N", "Minor-N", "Major-N", "R-N", "T"}
    /\ \E k \in 1..Len(h) :
          /\ \/ h[k] = "PReviewer Recommendation"
             \/ MatchWordIndexed("Reviewer Recommendation", h[k])
          /\ r[k] # ""
          /\ r[k] \notin RecommendationCodes

\* The output rows of extract_paper_scores: what follows the header on stdout.
EPSDataRows ==
    {k \in 1..Len(stdout) : Len(stdout[k]) > 1 /\ stdout[k] # EPSOutputHeader}

(* C7: in extract_paper_scores a retained row with a non-empty recommendation
   value outside {A, MnR, MnMaR, MaR, RMa, R} ends the run: no output row is
   written for that row or for any later row, and an error is reported. *)
C7_UnknownRecommendationAborts ==
    (script = "extract_paper_scores" /\ pc \in {"rows", "done"}) =>
        \A k \in 1..line :
            UnknownRecommendation(argv.input_filepath.header, argv.input_filepath.rows[k]) =>
                /\ pc = "done"
                /\ line = k
                /\ stderr # <<>>
                /\ Cardinality(EPSDataRows) <= k - 1
                /\ \A j \in EPSDataRows : stdout[j][1] # argv.input_filepath.rows[k][1]

\* Rows were written, then a row with an unknown code ended the run with rows unread.
C7_Witness ==
    /\ script = "extract_paper_scores"
    /\ pc = "done"
    /\ line >= 2
    /\ line < Len(argv.input_filepath.rows)
    /\ UnknownRecommendation(argv.input_filepath.header, row)
    /\ Cardinality(EPSDataRows) = line - 1
    /\ stderr = <<"An unexpected error occurred: '" \o EPSMissingKey(locals, row) \o "'">>

-----------------------------------------------------------------------------
(* C8 as stated, for papers_needing_work: if the header lacks Pname, Decision or
   Subcommittee, the run ends before any data row is read and writes nothing to
   stdout. *)
C8_MissingColumnAborts ==
    (/\ script = "papers_needing_work"
     /\ argv.input_filepath.exists
     /\ \E col \in {"Pname", "Decision", "Subcommittee"} :
           IndexOf(argv.input_filepath.header, col) = -1) =>
        line = 0 /\ stdout = <<>>

-----------------------------------------------------------------------------
\* The group keys of the data rows of an aggregating script's table, in output
\* order, and the key paired with the PC? flag for papers_needing_review_work.
TableWritten ==
    /\ pc = "done"
    /\ stdout # <<>>
    /\ stdout[1] \in {PNWOutputHeader, PNRWOutputHeader, "name,count"}

GroupKey(k) ==
    IF script = "analyze_reviewers" THEN CsvParse(stdout[k])[1] ELSE stdout[k][1]

(* C9 as stated: in the output of papers_needing_work, papers_needing_review_work
   and analyze_reviewers no group key appears in two data rows. *)
C9_GroupKeyUnique ==
    (script \in {"papers_needing_work", "papers_needing_review_work", "analyze_reviewers"}
        /\ TableWritten) =>
        \A j, k \in 2..Len(stdout) : GroupKey(j) = GroupKey(k) => j = k

(* C9 amended: no Primary appears in two data rows of papers_needing_work and no
   name in two data rows of analyze_reviewers; in papers_needing_review_work no
   Reviewer appears in two data rows with the same PC? value (a name that is both
   in an S<n>name and in an E<n>name column has one row of each). *)
C9_GroupKeyUniquePerRole ==
    (script \in {"papers_needing_work", "papers_needing_review_work", "analyze_reviewers"}
        /\ TableWritten) =>
        \A j, k \in 2..Len(stdout) :
            (/\ GroupKey(j) = GroupKey(k)
             /\ script = "papers_needing_review_work" => stdout[j][2] = stdout[k][2])
                => j = k

\* papers_needing_review_work wrote a PC row and an external row for one name.
C9_Witness ==
    /\ script = "papers_needing_review_work"
    /\ TableWritten
    /\ Len(stdout) >= 4
    /\ \E j, k \in 2..Len(stdout) :
          j # k /\ stdout[j][1] = stdout[k][1] /\ stdout[j][2] # stdout[k][2]

-----------------------------------------------------------------------------
\* analyze_reviewers has just read a data row that has all its fields, of a file
\* that has a Decision column.
ARReadFullRow ==
    /\ script = "analyze_reviewers"
    /\ pc = "rows"
    /\ IndexOf(argv.file_path.header, "Decision") # -1
    /\ line' = line + 1
    /\ argv.file_path.rows[line'] # <<>>
    /\ FullRow(argv.file_path.header, argv.file_path.rows[line'])

\* Row r names a reviewer in some static or E<n>name column.
NamesSomeone(h, r) ==
    \E k \in 1..Len(h) :
        /\ h[k] \in Range(static_columns_to_analyze) \/ MatchIndexed("E", "name", h[k])
        /\ strip(r[k]) # ""

(* C10 as stated, for analyze_reviewers: a row is retained if and only if its
   Decision field, trimmed of surrounding whitespace, is RER or ERER; a retained
   row that names a reviewer adds to the collected names, any other row adds
   nothing. *)
C10_TrimmedDecisionFilter ==
    [][ARReadFullRow =>
        LET h == argv.file_path.header
            r == argv.file_path.rows[line']
        IN  (strip(Field(h, r, "Decision")) \in {"RER", "ERER"} /\ NamesSomeone(h, r))
                <=> (locals' # locals)
      ]_vars

-----------------------------------------------------------------------------
\* extract_review_declines has written its output header and is reading rows.
ERDReading ==
    /\ script = "extract_review_declines"
    /\ pc \in {"rows", "done"}
    /\ stdout # <<>>

\* The date of log row r cannot be read as a date of the current year.
ERDUnparsable(h, r) ==
    FullRow(h, r) /\ ~ParseLogDate(Field(h, r, "Date"), argv.current_year).ok

\* A number that grows with the calendar date.
DayNumber(date) == date.y * 10000 + date.m * 100 + date.d

\* Log row r is dated on or after the cut-off and its subject says that somebody
\* declines to review.
ERDDeclines(h, r) ==
    /\ FullRow(h, r)
    /\ ParseLogDate(Field(h, r, "Date"), argv.current_year).ok
    /\ DayNumber(ParseLogDate(Field(h, r, "Date"), argv.current_year))
          >= DayNumber(ParseIsoDate(argv.oldest_date))
    /\ Find(r[SubjectIndex(h) + 1], "declines to review") # 0

\* The rows read so far that decline, and the place of the i-th input row among them.
ERDDeclinesRead ==
    {i \in 1..line : ERDDeclines(argv.file_path.header, argv.file_path.rows[i])}

ERDRank(i) == Cardinality({j \in ERDDeclinesRead : j <= i})

(* C11: extract_review_declines writes, in input row order, exactly one
   (Submission, Name) row for each input row dated on or after the cut-off whose
   subject contains 'declines to review'; Name is the trimmed text before the first
   ' declines to review' of the subject; a row dated before the cut-off or with a
   date that cannot be parsed gives no output row and the later rows are still
   read. *)
C11_DeclinesInRowOrder ==
    ERDReading =>
        LET h == argv.file_path.header
            rows == argv.file_path.rows
        IN  /\ Len(stdout) = 1 + Cardinality(ERDDeclinesRead)
            /\ \A i \in ERDDeclinesRead :
                  LET subject == rows[i][SubjectIndex(h) + 1]
                      at == Find(subject, " declines to review")
                      out == stdout[1 + ERDRank(i)]
                  IN  /\ Len(out) = 2
                      /\ out[1] = Field(h, rows[i], "Submission")
                      /\ at # 0 => out[2] = strip(SubSeq(subject, 1, at - 1))
            /\ pc = "done" => line = Len(rows)

\* The run ended after a row with an unreadable date, a row dated before the
\* cut-off and, later, a row dated on the cut-off day, which it wrote.
C11_Witness ==
    /\ ERDReading
    /\ pc = "done"
    /\ Len(stdout) >= 2
    /\ \E i, j \in 1..line :
          /\ i < j
          /\ ERDUnparsable(argv.file_path.header, argv.file_path.rows[i])
          /\ j \in ERDDeclinesRead
          /\ ParseLogDate(Field(argv.file_path.header, argv.file_path.rows[j], "Date"),
                          argv.current_year)
                = ParseIsoDate(argv.oldest_date)
    /\ \E i \in 1..line :
          /\ FullRow(argv.file_path.header, argv.file_path.rows[i])
          /\ Find(argv.file_path.rows[i][3], "declines to review") # 0
          /\ i \notin ERDDeclinesRead
          /\ ~ERDUnparsable(argv.file_path.header, argv.file_path.rows[i])

-----------------------------------------------------------------------------
\* The rows of the input of extract_paper_scores that pass its decision filter.
EPSRetainedRows(f) ==
    {k \in 1..Len(f.rows) :
        /\ FullRow(f.header, f.rows[k])
        /\ strip(Field(f.header, f.rows[k], "Decision"))
              \in {"RER", "ERER", "A-N", "Minor-N", "Major-N", "R-N", "T"}}

\* The header of f has every column extract_paper_scores requires by name, f has
\* no short row and no recommendation outside the closed set of codes.
EPSWellFormed(f) ==
    /\ f.exists
    /\ \A col \in {"ID", "Pscore", "Decision", "PReviewer Recommendation"} :
          IndexOf(f.header, col) # -1
    /\ \A k \in 1..Len(f.rows) :
          FullRow(f.header, f.rows[k]) /\ ~UnknownRecommendation(f.header, f.rows[k])

(* C12 as stated, for extract_paper_scores: when the header has no column that
   matches the participant-name pattern, the run still completes normally and
   writes one output row for every retained row. *)
C12_EmptyNameFamilyValid ==
    (/\ script = "extract_paper_scores"
     /\ pc = "done"
     /\ EPSWellFormed(argv.input_filepath)
     /\ ColumnsOfKind(argv.input_filepath.header, "name") = <<>>) =>
        /\ stderr = <<>>
        /\ line = Len(argv.input_filepath.rows)
        /\ Cardinality(EPSDataRows) = Cardinality(EPSRetainedRows(argv.input_filepath))
        /\ \A k \in EPSRetainedRows(argv.input_filepath) :
              \E j \in EPSDataRows : stdout[j][1] = Field(argv.input_filepath.header,
                                                          argv.input_filepath.rows[k], "ID")

-----------------------------------------------------------------------------
\* The trimmed tokens of a comma-separated cell; a blank cell has none.
CellTokens(cell) == IF strip(cell) = "" THEN <<>> ELSE SplitTrimmed(strip(cell))

\* The occurrences of name in the cells that the rows of f whose Decision is RER
\* or ERER hold under the columns cols: one for each (row, column, token) place.
Occurrences(f, cols, name) ==
    LET cells == {p \in (1..Len(f.rows)) \X (1..Len(f.header)) :
                     /\ f.header[p[2]] \in cols
                     /\ Len(f.rows[p[1]]) >= Len(f.header)
                     /\ Field(f.header, f.rows[p[1]], "Decision") \in {"RER", "ERER"}}
    IN  Cardinality(UNION {
            {<<p[1], p[2], t>> :
                t \in {u \in 1..Len(CellTokens(f.rows[p[1]][p[2]])) :
                          CellTokens(f.rows[p[1]][p[2]])[u] = name}} : p \in cells})

\* analyze_reviewers has printed its table for a file that has a Decision column.
ARPrinted ==
    /\ script = "analyze_reviewers"
    /\ pc = "done"
    /\ stdout # <<>>
    /\ stdout[1] = "name,count"
    /\ IndexOf(argv.file_path.header, "Decision") # -1

(* C13 as stated: the count analyze_reviewers prints for a name is the number of
   its occurrences in the E<number>name columns of the retained rows minus the
   number of its occurrences in the columns Reviewer 1, Reviewer 2 and
   Reviewer 3, a comma-separated cell giving one occurrence per trimmed token. *)
C13_DynamicMinusStatic ==
    ARPrinted =>
        \A k \in 2..Len(stdout) :
            LET f == argv.file_path
                name == CsvParse(stdout[k])[1]
                dynamic == Occurrences(f, Range(EColumnsToAnalyze(f.header)), name)
                static == Occurrences(f, Range(static_columns_to_analyze), name)
            IN  CsvParse(stdout[k])[2] = ToString(dynamic - static)

-----------------------------------------------------------------------------
\* The decimal scores row r holds under the columns letter<n>score, in header order.
DecimalCells(h, r, letter) ==
    LET at == SelectSeq([k \in 1..Len(h) |-> k],
                        LAMBDA k : MatchIndexed(letter, "score", h[k]) /\ MatchDecimal(r[k]))
    IN  [k \in 1..Len(at) |-> r[at[k]]]

(* C14 as stated: every output row of extract_paper_scores is aligned with the
   10-column header however many S<n>score/E<n>score cells hold a decimal score:
   field 0 is the ID, field 3 the relabelled decision, field 4 the Pscore, the
   decimal scores fill fields 5..8 with empty padding, and field 9
   (Precommendation) is the row's PReviewer Recommendation value. *)
C14_RowAlignedWithHeader ==
    [][EPSWroteRow =>
        LET h == argv.input_filepath.header
            out == stdout'[Len(stdout')]
            decision == strip(Field(h, row', "Decision"))
            scores == DecimalCells(h, row', "S") \o DecimalCells(h, row', "E")
        IN  /\ out[1] = Field(h, row', "ID")
            /\ out[4] = IF decision \in {"RER", "T"} THEN "" ELSE decision
            /\ out[5] = Field(h, row', "Pscore")
            /\ \A k \in 1..4 : out[5 + k] = IF k <= Len(scores) THEN scores[k] ELSE ""
            /\ out[10] = Field(h, row', "PReviewer Recommendation")
      ]_vars

-----------------------------------------------------------------------------
\* papers_needing_work is past the header of a file that has the three columns it
\* reads by name.
PNWReading ==
    /\ script = "papers_needing_work"
    /\ pc \in {"rows", "done"}
    /\ argv.input_filepath.exists
    /\ \A col \in {"Pname", "Decision", "Subcommittee"} :
          IndexOf(argv.input_filepath.header, col) # -1

\* The rows read so far that carry Pname key, a Subcommittee field and a Decision
\* that passes the filter.
PNWRetainedRead(key) ==
    LET h == argv.input_filepath.header
        rows == argv.input_filepath.rows
    IN  {i \in 1..line :
            /\ \A col \in {"Pname", "Decision", "Subcommittee"} :
                  Len(rows[i]) > IndexOf(h, col)
            /\ strip(Field(h, rows[i], "Decision")) \in {"RER", "ERER"}
            /\ Field(h, rows[i], "Pname") = key}

(* C15: in papers_needing_work the Subcommittee label of a group is the
   Subcommittee field of the first retained row that carries its Pname; later rows
   of the group never change it, even when they hold another value, and only add
   to the group's counters, which start at zero on first sight of the key. *)
C15_SubcommitteeFromFirstRow ==
    PNWReading =>
        LET h == argv.input_filepath.header
            rows == argv.input_filepath.rows
        IN  \A key \in DOMAIN locals.reviewer_subcommittee :
                LET read == PNWRetainedRead(key)
                    first == CHOOSE i \in read : \A j \in read : i <= j
                IN  /\ read # {}
                    /\ locals.reviewer_subcommittee[key]
                          = Field(h, rows[first], "Subcommittee")
                    /\ stderr = <<>> =>
                          locals.total_paper_counts[key] = Cardinality(read)
                    /\ (pc = "done" /\ stdout # <<>>) =>
                          Reported(key, "Subcommittee") = Field(h, rows[first], "Subcommittee")

\* The table reports SC2 for a group whose first retained row says SC2 and whose
\* later retained row says SC1.
C15_Witness ==
    /\ PNWReading
    /\ pc = "done"
    /\ stdout # <<>>
    /\ ReportsGroup("PaperA")
    /\ Reported("PaperA", "Subcommittee") = "SC2"
    /\ Reported("PaperA", "Total Papers") = "2"
    /\ \E i \in PNWRetainedRead("PaperA") :
          Field(argv.input_filepath.header, argv.input_filepath.rows[i], "Subcommittee") = "SC1"

-----------------------------------------------------------------------------
\* The per-group counters of papers_needing_review_work.
PNRWCounters ==
    {"external_review_counts", "external_total_review_counts",
     "pc_review_counts", "pc_total_review_counts"}

\* The counters the running aggregator keeps, once it has set them up.
GroupCounters ==
    IF script = "papers_needing_work" THEN PNWCounters \cap DOMAIN locals
    ELSE IF script = "papers_needing_review_work" THEN PNRWCounters \cap DOMAIN locals
    ELSE {}

CountersNonNegative ==
    \A d \in GroupCounters : \A key \in DOMAIN locals[d] : locals[d][key] >= 0

CountersNeverDecrease ==
    \A d \in GroupCounters :
        \A key \in DOMAIN locals[d] :
            key \in DOMAIN locals'[d] /\ locals'[d][key] >= locals[d][key]

(* C16: during a pass of papers_needing_work and of papers_needing_review_work
   every per-group counter is non-negative in every reachable state and never
   decreases from one processed row to the next. *)
C16_CountersMonotone == []CountersNonNegative /\ [][CountersNeverDecrease]_vars

\* Counters of one group have grown over several rows: a surplus and a deficit
\* have both been counted for it.
C16_Witness ==
    /\ script = "papers_needing_work"
    /\ pc = "rows"
    /\ line >= 2
    /\ "low_reviewer_counts" \in DOMAIN locals
    /\ \E key \in DOMAIN locals.low_reviewer_counts :
          /\ locals.overcommitted_reviewer_counts[key] >= 1
          /\ locals.missing_reviewer_counts[key] >= 2
          /\ locals.total_paper_counts[key] >= 2

-----------------------------------------------------------------------------
\* The ways to reorder n rows.
RowOrders(n) == {p \in [1..n -> 1..n] : \A i, j \in 1..n : p[i] = p[j] => i = j}

\* The locals of papers_needing_review_work after the loop has gone through rows
\* from the k-th on, starting from locals l.
RECURSIVE PNRWAfterRows(_, _, _)
PNRWAfterRows(l, rows, k) ==
    IF k > Len(rows) THEN l
    ELSE PNRWAfterRows(PNRWProcessRow(l, rows[k]).locals, rows, k + 1)

\* The table papers_needing_review_work writes for header h and data rows rows.
PNRWTable(h, rows) == PNRWOutput(PNRWAfterRows(PNRWResolve(h), rows, 1))

(* C17 as stated: the table papers_needing_review_work writes does not depend on
   the order of the data rows: for every reordering of the rows it writes the same
   'Reviews Completed' and 'Total Reviews Assigned' for every reviewer, also for an
   external reviewer with a tentative and a non-tentative assignment. *)
C17_RowOrderIrrelevant ==
    (script = "papers_needing_review_work" /\ pc = "done" /\ stdout # <<>>) =>
        LET h == argv.input_filepath.header
            rows == argv.input_filepath.rows
        IN  \A p \in RowOrders(Len(rows)) :
                PNRWTable(h, [i \in 1..Len(rows) |-> rows[p[i]]]) = stdout

-----------------------------------------------------------------------------
\* The relations between the counters of one group of papers_needing_work.
PNWGroupBounds(l, key) ==
    /\ l.low_reviewer_counts[key] <= l.total_paper_counts[key]
    /\ l.completed_reviews_counts[key] <= l.total_reviewer_counts[key]
    /\ l.missing_reviewer_counts[key] <= 2 * l.low_reviewer_counts[key]

\* The table of papers_needing_work shows the counters of group key.
PNWTableShows(l, key) ==
    /\ Reported(key, "Papers Needing Reviewers") = ToString(l.low_reviewer_counts[key])
    /\ Reported(key, "Total Papers") = ToString(l.total_paper_counts[key])
    /\ Reported(key, "Completed External Reviews") = ToString(l.completed_reviews_counts[key])
    /\ Reported(key, "Assigned Reviewers") = ToString(l.total_reviewer_counts[key])
    /\ Reported(key, "Missing Reviewers") = ToString(l.missing_reviewer_counts[key])

(* C18: after any sequence of processed rows, for every group key of
   papers_needing_work Papers Needing Reviewers <= Total Papers, Completed
   External Reviews <= Assigned Reviewers and Missing Reviewers <= 2 * Papers
   Needing Reviewers; for every PC and every external reviewer of
   papers_needing_review_work Reviews Completed <= Total Reviews Assigned. *)
C18_CounterRelations ==
    /\ (script = "papers_needing_work" /\ "low_reviewer_counts" \in DOMAIN locals) =>
          \A key \in DOMAIN locals.low_reviewer_counts :
              /\ PNWGroupBounds(locals, key)
              /\ (pc = "done" /\ stdout # <<>>) => PNWTableShows(locals, key)
    /\ (script = "papers_needing_review_work" /\ "pc_review_counts" \in DOMAIN locals) =>
          /\ \A key \in DOMAIN locals.pc_review_counts :
                locals.pc_review_counts[key] <= locals.pc_total_review_counts[key]
          /\ \A key \in DOMAIN locals.external_review_counts :
                locals.external_review_counts[key] <= locals.external_total_review_counts[key]
          /\ (pc = "done" /\ stdout # <<>>) =>
                \A k \in 2..Len(stdout) : ToInt(stdout[k][3]) <= ToInt(stdout[k][4])

\* A group of papers_needing_work with a paper short of reviewers and a paper
\* that is not, and with completed reviews but fewer than assigned ones.
C18_Witness ==
    /\ script = "papers_needing_work"
    /\ pc = "done"
    /\ stdout # <<>>
    /\ \E key \in DOMAIN locals.low_reviewer_counts :
          /\ locals.low_reviewer_counts[key] >= 1
          /\ locals.low_reviewer_counts[key] < locals.total_paper_counts[key]
          /\ locals.completed_reviews_counts[key] >= 1
          /\ locals.completed_reviews_counts[key] < locals.total_reviewer_counts[key]
          /\ locals.missing_reviewer_counts[key] = 2 * locals.low_reviewer_counts[key]

====
